---- MODULE Spec2Model ----
(***************************************************************************)
(* Commit coverage analysis of scripts/cvc5/commit_coverage_analyzer.py:   *)
(* diff line tracking, changed-function selection, signature               *)
(* normalisation and tiered matching against the coverage map.             *)
(*                                                                         *)
(* A Python str is a sequence of one-character strings, so that prefix     *)
(* tests, splits and regular-expression substitutions are computed on the  *)
(* characters as the code computes them.                                   *)
(***************************************************************************)
EXTENDS Integers, Sequences, FiniteSets, TLC

VARIABLES
    n_pc,        \* SpecNorm: how many times normalize_to_compare was applied
    n_input,     \* SpecNorm: the signature string given
    n_once,      \* SpecNorm: normalize_to_compare(n_input)
    n_twice,     \* SpecNorm: normalize_to_compare(n_once)
    d_pc,        \* SpecDiff: "walk" inside the loop of get_changed_lines, "returned" after it
    current_file,   \* get_changed_lines: path of the last "+++ b/" header, or None
    in_hunk,        \* get_changed_lines: a hunk header was accepted for current_file
    new_line,       \* get_changed_lines: the post-commit line counter, or None
    changed_lines,  \* get_changed_lines: the dict path -> set of line numbers
    g,           \* SpecDiff: where the diff text being read stands (what git wrote so far)
    g_truth,     \* SpecDiff: per "+++ b/" file, the post-commit numbers of its added lines
    c_pc,        \* SpecCommit: where get_commit_functions stands
    c_commit,    \* SpecCommit: the commit, a list of file changes (both revisions of a file)
    changed_files_lines,  \* get_commit_functions: the dict of get_changed_lines
    c_order,     \* SpecCommit: the keys of changed_files_lines in insertion order
    c_fi,        \* SpecCommit: index of the current file in c_order
    after_funcs,          \* get_commit_functions: the functions of the post-commit revision
    before_funcs,         \* get_commit_functions: the functions of the parent revision
    c_lines,     \* SpecCommit: sorted(changed_lines) of the current file
    c_li,        \* SpecCommit: index of the current changed line
    selected,             \* get_commit_functions: the dict key -> function, in insertion order
    c_ei,        \* SpecCommit: index of the current item of selected
    changed_functions,    \* get_commit_functions: the list returned
    alt_signature_map,    \* self.alt_signature_map
    c_picks,     \* SpecCommit: per changed line looked at, the function chosen for it
    c_emits,     \* SpecCommit: per selected function, whether it was held a pure move
    m_pc,        \* SpecMatch: where find_tests_for_functions stands
    coverage_map,         \* self.coverage_map: the items of the JSON object, in its order
    functions,            \* find_tests_for_functions: the list passed in
    cov_full_to_tests,    \* find_tests_for_functions: normalized path:signature -> tests
    cov_sig_to_tests,     \* find_tests_for_functions: normalized signature -> tests
    m_i,         \* SpecMatch: index of the current function
    all_covering_tests,   \* find_tests_for_functions: the tests matched so far
    functions_with_tests,
    functions_without_tests,
    function_test_counts,
    test_function_counts,
    direct_matches,
    path_removed_matches,
    match_log,   \* SpecMatch: per iteration, its locals (norms, match_type, matching_tests)
    p_pc,  \* SpecPair: "start", "normalized" or "matched"
    p_kind,  \* SpecPair: what the two spellings differ in
    p_func,  \* SpecPair: the changed function entry, path:signature:line
    p_key,  \* SpecPair: the coverage key, path:signature:line
    p_func_nfs,  \* SpecPair: normalize_function_signature of the function signature
    p_key_nfs,  \* SpecPair: normalize_function_signature of the key signature
    p_func_norm,  \* SpecPair: normalize_to_compare of the function signature
    p_key_norm,  \* SpecPair: normalize_to_compare of the key signature
    p_match,     \* SpecPair: the tier result of p_func against the map {p_key: [t1]}
    s_pc,  \* SpecSession: where analyze_commit_coverage stands, "idle" between two calls
    s_calls,  \* SpecSession: the calls that have ended
    s_file,  \* SpecSession: what the file at coverage_json_path holds
    s_map_type,  \* SpecSession: type(self.coverage_map): "NoneType", "dict" or "list"
    s_loads,  \* SpecSession: how often the call has assigned self.coverage_map from the file
    s_loaded,  \* SpecSession: the object that json.load returned in the call
    s_report,  \* SpecSession: what the last call returned, or that it raised
    s_vcs,  \* SpecSession: what the repository answers for the commit; "ok" elsewhere
    x_pc,   \* SpecCli: where main stands: "start", "analyzing" or "exited"
    x_args,   \* SpecCli: the commit given and the file at --coverage-json
    x_exit,  \* SpecCli: the exit code of the process, None while it runs
    o_pc,   \* SpecOracle: where main of oracle.py stands
    o_test,   \* SpecOracle: the test file: whether it exists, whether it uses (check-sat-using
    o_cvc5,   \* SpecOracle: (cvc5_exit, cvc5_result)
    o_solver,   \* SpecOracle: (solver_exit, solver_result)
    o_exit,  \* SpecOracle: the exit code of oracle.py, None while it runs
    q_pc,   \* SpecQualify: "start" before the call of is_cvc5_function, "done" after it
    q_head,   \* SpecQualify: the qualified name of the signature, the text before its first (
    q_params,   \* SpecQualify: the rest of the signature, from its first (
    q_answer,  \* SpecQualify: what is_cvc5_function returned
    r_pc,   \* SpecFuzz: where run() stands: "waiting" for the workers, "joining" them, "returned"
    time_limited,   \* SpecFuzz: self.time_remaining is a time limit (not None)
    time_expired,   \* SpecFuzz: the clock has passed start_time + time_remaining
    shutdown_event,   \* SpecFuzz: the shared event is set
    resource_state,   \* SpecFuzz: the entries status and paused of the shared dict
    test_queue,   \* SpecFuzz: the shared queue of test names
    workers,   \* SpecFuzz: per worker process, its position and its locals
    stats,   \* SpecFuzz: the shared dict of counters
    f_done,   \* SpecFuzz: per counter, how many "+= 1" statements on it have been executed
    f_removed   \* SpecFuzz: the tests on which _handle_exit_code returned remove

normVars == <<n_pc, n_input, n_once, n_twice>>
diffVars == <<d_pc, current_file, in_hunk, new_line, changed_lines, g, g_truth>>
commitVars == <<c_pc, c_commit, changed_files_lines, c_order, c_fi, after_funcs, before_funcs,
                c_lines, c_li, selected, c_ei, changed_functions, alt_signature_map,
                c_picks, c_emits>>
matchVars == <<m_pc, coverage_map, functions, cov_full_to_tests, cov_sig_to_tests, m_i,
               all_covering_tests, functions_with_tests, functions_without_tests,
               function_test_counts, test_function_counts, direct_matches,
               path_removed_matches, match_log>>
pairVars == <<p_pc, p_kind, p_func, p_key, p_func_nfs, p_key_nfs, p_func_norm, p_key_norm, p_match>>
sessVars == <<s_pc, s_calls, s_file, s_map_type, s_loads, s_loaded, s_report, s_vcs>>
cliVars == <<x_pc, x_args, x_exit>>
oracleVars == <<o_pc, o_test, o_cvc5, o_solver, o_exit>>
qualVars == <<q_pc, q_head, q_params, q_answer>>
fuzzVars == <<r_pc, time_limited, time_expired, shutdown_event, resource_state, test_queue, workers, stats, f_done, f_removed>>
vars == <<normVars, diffVars, commitVars, matchVars, pairVars, sessVars, cliVars, oracleVars, qualVars, fuzzVars>>

\* what the actions of one specification leave alone
normOthers == <<diffVars, commitVars, matchVars, pairVars, sessVars, cliVars, oracleVars, qualVars, fuzzVars>>
diffOthers == <<normVars, commitVars, matchVars, pairVars, sessVars, cliVars, oracleVars, qualVars, fuzzVars>>
commitOthers == <<normVars, diffVars, matchVars, pairVars, sessVars, cliVars, oracleVars, qualVars, fuzzVars>>
matchOthers == <<normVars, diffVars, commitVars, pairVars, sessVars, cliVars, oracleVars, qualVars, fuzzVars>>
pairOthers == <<normVars, diffVars, commitVars, matchVars, sessVars, cliVars, oracleVars, qualVars, fuzzVars>>
sessOthers == <<normVars, diffVars, commitVars, matchVars, pairVars, cliVars, oracleVars, qualVars, fuzzVars>>
cliOthers == <<normVars, diffVars, commitVars, matchVars, pairVars, sessVars, oracleVars, qualVars, fuzzVars>>
\* what a call of analyze_commit_coverage leaves alone
callOthers == <<normVars, diffVars, pairVars, cliVars, oracleVars, qualVars, fuzzVars>>
\* what main of the analyzer leaves alone besides the analyzer and its own locals
mainOthers == <<normVars, diffVars, pairVars, oracleVars, qualVars, fuzzVars>>
oracleOthers == <<normVars, diffVars, commitVars, matchVars, pairVars, sessVars, cliVars, qualVars, fuzzVars>>
qualOthers == <<normVars, diffVars, commitVars, matchVars, pairVars, sessVars, cliVars, oracleVars, fuzzVars>>
fuzzOthers == <<normVars, diffVars, commitVars, matchVars, pairVars, sessVars, cliVars, oracleVars, qualVars>>

(***************************************************************************)
(* Python str primitives                                                   *)
(***************************************************************************)
NoStr == <<"None">>          \* Python None where a str is expected

Whitespace == {" ", "\t", "\n"}
Digits == {"0", "1", "2", "3", "4", "5", "6", "7", "8", "9"}

IsSpace(c) == c \in Whitespace

\* first index k >= i with s[k] in C; Len(s)+1 if there is none
FirstIn(s, C, i) ==
    IF i > Len(s) THEN Len(s) + 1
    ELSE CHOOSE k \in i..(Len(s) + 1) :
            (k = Len(s) + 1 \/ s[k] \in C) /\ \A m \in i..(k - 1) : s[m] \notin C

\* first index k >= i with s[k] not in C; Len(s)+1 if there is none
FirstNotIn(s, C, i) ==
    IF i > Len(s) THEN Len(s) + 1
    ELSE CHOOSE k \in i..(Len(s) + 1) :
            (k = Len(s) + 1 \/ s[k] \notin C) /\ \A m \in i..(k - 1) : s[m] \in C

\* last index k <= i with s[k] in C; 0 if there is none
LastIn(s, C, i) ==
    IF i < 1 THEN 0
    ELSE i - (CHOOSE j \in 0..i :
            (j = i \/ s[i - j] \in C) /\ \A m \in 0..(j - 1) : s[i - m] \notin C)

\* last index k <= i with s[k] not in C; 0 if there is none
LastNotIn(s, C, i) ==
    IF i < 1 THEN 0
    ELSE i - (CHOOSE j \in 0..i :
            (j = i \/ s[i - j] \notin C) /\ \A m \in 0..(j - 1) : s[i - m] \in C)

StartsWith(s, p) == Len(s) >= Len(p) /\ SubSeq(s, 1, Len(p)) = p
EndsWith(s, p) == Len(s) >= Len(p) /\ SubSeq(s, Len(s) - Len(p) + 1, Len(s)) = p

\* p occurs in s at index i
OccursAt(s, p, i) == i >= 1 /\ i + Len(p) - 1 <= Len(s) /\ SubSeq(s, i, i + Len(p) - 1) = p

\* p in s
Contains(s, p) == \E i \in 1..(Len(s) - Len(p) + 1) : SubSeq(s, i, i + Len(p) - 1) = p

\* str.isdigit(): non-empty and every character a digit
IsDigitStr(s) == Len(s) > 0 /\ \A i \in 1..Len(s) : s[i] \in Digits

\* str.strip()
Strip(s) == SubSeq(s, FirstNotIn(s, Whitespace, 1), LastNotIn(s, Whitespace, Len(s)))

\* sep.join(parts)
RECURSIVE JoinWith(_, _)
JoinWith(parts, sep) ==
    IF Len(parts) = 0 THEN <<>>
    ELSE IF Len(parts) = 1 THEN parts[1]
    ELSE parts[1] \o sep \o JoinWith(Tail(parts), sep)

(***************************************************************************)
(* Regular-expression substitutions used by the normalisers                *)
(***************************************************************************)
\* re.sub(r"\s+", " ", s)
CollapseWsAt(s, i) ==
    IF IsSpace(s[i])
    THEN (IF i > 1 /\ IsSpace(s[i - 1]) THEN <<>> ELSE <<" ">>)
    ELSE <<s[i]>>

\* the pieces of lo..hi, concatenated; the range is halved, so that the
\* nesting of the evaluation stays logarithmic in its length
RECURSIVE CollapseWsRange(_, _, _)
CollapseWsRange(s, lo, hi) ==
    IF lo > hi THEN <<>>
    ELSE IF lo = hi THEN CollapseWsAt(s, lo)
    ELSE CollapseWsRange(s, lo, (lo + hi) \div 2) \o CollapseWsRange(s, (lo + hi) \div 2 + 1, hi)

CollapseWs(s) == CollapseWsRange(s, 1, Len(s))

\* the whitespace run holding index i is followed by & or *
BeforeSym(s, j) == j <= Len(s) /\ s[j] \in {"&", "*"}

\* re.sub(r"\s+([&*])", r"\1", s): a whitespace run right before & or * goes
RemoveWsBeforeSymAt(s, i) ==
    IF IsSpace(s[i]) /\ BeforeSym(s, FirstNotIn(s, Whitespace, i)) THEN <<>> ELSE <<s[i]>>

RECURSIVE RemoveWsBeforeSymRange(_, _, _)
RemoveWsBeforeSymRange(s, lo, hi) ==
    IF lo > hi THEN <<>>
    ELSE IF lo = hi THEN RemoveWsBeforeSymAt(s, lo)
    ELSE RemoveWsBeforeSymRange(s, lo, (lo + hi) \div 2)
         \o RemoveWsBeforeSymRange(s, (lo + hi) \div 2 + 1, hi)

RemoveWsBeforeSym(s) == RemoveWsBeforeSymRange(s, 1, Len(s))

\* the whitespace run holding index i follows a comma
AfterComma(s, b) == b >= 1 /\ s[b] = ","

\* re.sub(r",\s*", ", ", s)
SpaceAfterCommaAt(s, i) ==
    IF s[i] = "," THEN <<",", " ">>
    ELSE IF IsSpace(s[i]) /\ AfterComma(s, LastNotIn(s, Whitespace, i)) THEN <<>>
    ELSE <<s[i]>>

RECURSIVE SpaceAfterCommaRange(_, _, _)
SpaceAfterCommaRange(s, lo, hi) ==
    IF lo > hi THEN <<>>
    ELSE IF lo = hi THEN SpaceAfterCommaAt(s, lo)
    ELSE SpaceAfterCommaRange(s, lo, (lo + hi) \div 2)
         \o SpaceAfterCommaRange(s, (lo + hi) \div 2 + 1, hi)

SpaceAfterComma(s) == SpaceAfterCommaRange(s, 1, Len(s))

(***************************************************************************)
(* strip_line_suffix / build_signature_key                                 *)
(***************************************************************************)
\* s.rsplit(':', 1) gave (base, last) and last.isdigit()
HasLineSuffix(s, c) == c # 0 /\ IsDigitStr(SubSeq(s, c + 1, Len(s)))

DropFromColon(s, c) == IF HasLineSuffix(s, c) THEN SubSeq(s, 1, c - 1) ELSE s

\* the key as it is, line suffix included
KeepLineSuffix(s) == s

strip_line_suffix(s) == DropFromColon(s, LastIn(s, {":"}, Len(s)))

build_signature_key(signature) == DropFromColon(signature, LastIn(signature, {":"}, Len(signature)))

(***************************************************************************)
(* normalize_function_signature                                            *)
(***************************************************************************)
\* the angle-bracket depth after character ch
DepthAfter(depth, ch) ==
    IF ch = "<" THEN depth + 1
    ELSE IF ch = ">" THEN (IF depth > 0 THEN depth - 1 ELSE 0)
    ELSE depth

SplitStep(acc, ch, d) ==
    IF ch = "," /\ d = 0
    THEN [params |-> Append(acc.params, Strip(acc.buf)), buf |-> <<>>, depth |-> d]
    ELSE [params |-> acc.params, buf |-> Append(acc.buf, ch), depth |-> d]

SplitEnd(end) ==
    IF Len(end.buf) > 0 THEN Append(end.params, Strip(end.buf)) ELSE end.params

\* Split the parameter string on the commas at angle-bracket depth 0; every
\* piece is stripped, and a trailing empty buffer adds no piece.
\* the loop over params_str[lo..hi], from the loop state acc; the first half
\* is evaluated before the second is entered
RECURSIVE SplitRange(_, _, _, _)
RECURSIVE SplitRest(_, _, _, _)
SplitRange(s, acc, lo, hi) ==
    IF lo > hi THEN acc
    ELSE IF lo = hi THEN SplitStep(acc, s[lo], DepthAfter(acc.depth, s[lo]))
    ELSE SplitRest(s, SplitRange(s, acc, lo, (lo + hi) \div 2), (lo + hi) \div 2 + 1, hi)

SplitRest(s, left, lo, hi) == IF left.depth >= 0 THEN SplitRange(s, left, lo, hi) ELSE left

SplitParams(s) ==
    SplitEnd(SplitRange(s, [params |-> <<>>, buf |-> <<>>, depth |-> 0], 1, Len(s)))

sConstSp == <<"c","o","n","s","t"," ">>
sSpConst == <<" ","c","o","n","s","t">>

\* re.match(r'^(.*?)(\s*[&*]+)$', p) with symStart the start of the maximal
\* trailing run of & and *: base is what precedes the whitespace run before
\* it, syms the run; without a run there is no match and base is p.
JoinParam(p, has_leading_const, symStart) ==
    (IF symStart <= Len(p)
     THEN Strip(SubSeq(p, 1, LastNotIn(p, Whitespace, symStart - 1)))
     ELSE p)
    \o (IF has_leading_const THEN sSpConst ELSE <<>>)
    \o SubSeq(p, symStart, Len(p))

ConstParam(p, has_leading_const) ==
    RemoveWsBeforeSym(JoinParam(p, has_leading_const, LastNotIn(p, {"&", "*"}, Len(p)) + 1))

LeadingConst(p) ==
    IF StartsWith(p, sConstSp)
    THEN ConstParam(Strip(SubSeq(p, Len(sConstSp) + 1, Len(p))), TRUE)
    ELSE ConstParam(p, FALSE)

normalize_param(p) == LeadingConst(Strip(CollapseWs(p)))

RECURSIVE NormalizeParams(_)
NormalizeParams(params) ==
    IF Len(params) = 0 THEN <<>>
    ELSE (IF Len(params[1]) = 0 THEN <<>> ELSE <<normalize_param(params[1])>>)
         \o NormalizeParams(Tail(params))

SignatureParts(func_sig, open, close) ==
    IF open > Len(func_sig) \/ close > Len(func_sig) THEN func_sig
    ELSE SubSeq(func_sig, 1, open)
         \o JoinWith(NormalizeParams(SplitParams(SubSeq(func_sig, open + 1, close - 1))), <<",", " ">>)
         \o SubSeq(func_sig, close, Len(func_sig))

CloseParen(func_sig, open) == SignatureParts(func_sig, open, FirstIn(func_sig, {")"}, open + 2))

\* re.match(r'^(.*?\()(.+?)(\).*)$', func_sig): the prefix ends at the first
\* '(', the parameter string runs to the first ')' at least one character
\* later, the suffix is the rest.
normalize_function_signature(func_sig) == CloseParen(func_sig, FirstIn(func_sig, {"("}, 1))

(***************************************************************************)
(* normalize_to_compare                                                    *)
(***************************************************************************)
sStdVector == <<"s","t","d",":",":","v","e","c","t","o","r","<">>
sStdAllocator == <<"s","t","d",":",":","a","l","l","o","c","a","t","o","r","<">>

expand_vector(inner) ==
    sStdVector \o inner \o <<",", " ">> \o sStdAllocator \o inner \o <<">", " ", ">">>

\* r"std::vector<([^,>]+)>" matches at i, its group running from a to e-1
VectorAt(s, i, a, e) ==
    OccursAt(s, sStdVector, i) /\ e > a /\ e <= Len(s) /\ s[e] = ">"

ExpandStep(s, acc, i, a, e) ==
    IF i < acc.resume THEN acc
    ELSE IF VectorAt(s, i, a, e)
    THEN [out |-> acc.out \o expand_vector(Strip(SubSeq(s, a, e - 1))), resume |-> e + 1]
    ELSE [out |-> Append(acc.out, s[i]), resume |-> i + 1]

\* re.sub(r"std::vector<([^,>]+)>", expand_vector, s): leftmost matches,
\* scanning resumes after each match
RECURSIVE ExpandRange(_, _, _, _)
RECURSIVE ExpandRest(_, _, _, _)
ExpandRange(s, acc, lo, hi) ==
    IF lo > hi THEN acc
    ELSE IF lo = hi
    THEN ExpandStep(s, acc, lo, lo + Len(sStdVector), FirstIn(s, {",", ">"}, lo + Len(sStdVector)))
    ELSE ExpandRest(s, ExpandRange(s, acc, lo, (lo + hi) \div 2), (lo + hi) \div 2 + 1, hi)

ExpandRest(s, left, lo, hi) == IF left.resume >= 0 THEN ExpandRange(s, left, lo, hi) ELSE left

ExpandVectors(s) == ExpandRange(s, [out |-> <<>>, resume |-> 1], 1, Len(s)).out

normalize_to_compare(sig_or_key) ==
    ExpandVectors(Strip(CollapseWs(SpaceAfterComma(RemoveWsBeforeSym(
        normalize_function_signature(strip_line_suffix(sig_or_key)))))))

(***************************************************************************)
(* get_changed_lines: the walk over the lines of a zero-context diff       *)
(***************************************************************************)
NoneInt == -1                \* Python None where an int is expected

DigitChars == <<"0", "1", "2", "3", "4", "5", "6", "7", "8", "9">>
DigitVal(c) == (CHOOSE d \in 1..10 : DigitChars[d] = c) - 1

\* int(s) for a string of decimal digits
RECURSIVE ParseInt(_)
ParseInt(s) ==
    IF Len(s) = 0 THEN 0
    ELSE ParseInt(SubSeq(s, 1, Len(s) - 1)) * 10 + DigitVal(s[Len(s)])

\* str(n) for n >= 0
RECURSIVE Dec(_)
Dec(n) == IF n < 10 THEN <<DigitChars[n + 1]>> ELSE Dec(n \div 10) \o <<DigitChars[(n % 10) + 1]>>

sDiffGit == <<"d","i","f","f"," ","-","-","g","i","t"," ">>
sPlusB == <<"+","+","+"," ","b","/">>
sAtAt == <<"@","@"," ">>
sAtAtMinus == <<"@","@"," ","-">>
sSpPlus == <<" ","+">>
sSpAtAt == <<" ","@","@">>
sPlus3 == <<"+","+","+">>
sMinus3 == <<"-","-","-">>

\* \d+ from index i: the index after the digit run (i itself if there is none)
DigitsEnd(s, i) == FirstNotIn(s, Digits, i)

\* (?:,\d+)? from index i: the index after the group, i if it is not taken
OptCountEnd(s, i) ==
    IF i <= Len(s) /\ s[i] = "," /\ DigitsEnd(s, i + 1) > i + 1 THEN DigitsEnd(s, i + 1) ELSE i

\* the tail of the pattern, from the start g1 of group 1
HunkTailAt(s, g1) == DigitsEnd(s, g1) > g1 /\ OccursAt(s, sSpAtAt, OptCountEnd(s, DigitsEnd(s, g1)))

\* where group 1 starts when "@@ -\d+(?:,\d+)? \+" matches from index p, else 0
HunkGroup1At(s, p) ==
    IF OccursAt(s, sAtAtMinus, p) /\ DigitsEnd(s, p + 4) > p + 4
       /\ OccursAt(s, sSpPlus, OptCountEnd(s, DigitsEnd(s, p + 4)))
    THEN OptCountEnd(s, DigitsEnd(s, p + 4)) + 2
    ELSE 0

HunkMatchAt(s, p) == HunkGroup1At(s, p) # 0 /\ HunkTailAt(s, HunkGroup1At(s, p))

Group1(s, g1) == ParseInt(SubSeq(s, g1, DigitsEnd(s, g1) - 1))

\* re.search(r'@@ -\d+(?:,\d+)? \+(\d+)(?:,(\d+))? @@', raw): int(m.group(1))
\* of the leftmost match, None without a match
HunkNewStart(raw) ==
    IF \E p \in 1..Len(raw) : HunkMatchAt(raw, p)
    THEN Group1(raw, HunkGroup1At(raw,
            CHOOSE p \in 1..Len(raw) : HunkMatchAt(raw, p) /\ \A q \in 1..(p - 1) : ~HunkMatchAt(raw, q)))
    ELSE NoneInt

\* the empty dict
EmptyDict == [k \in {} |-> {}]

\* if key not in d: d[key] = set()
SetDefault(d, key) == [k \in (DOMAIN d) \cup {key} |-> IF k \in DOMAIN d THEN d[k] ELSE {}]

\* d[key].add(n)
AddLine(d, key, n) == [d EXCEPT ![key] = @ \cup {n}]

\* "if current_file and m": the file is set and not the empty string
Truthy(file) == file # NoStr /\ Len(file) > 0

AcceptHunk(st, start) ==
    IF Truthy(st.current_file) /\ start # NoneInt
    THEN [st EXCEPT !.new_line = start, !.in_hunk = TRUE]
    ELSE [st EXCEPT !.in_hunk = FALSE, !.new_line = NoneInt]

\* the loop body without the reset of lines 125-129
NoResetWalkLine(st, raw) ==
    IF StartsWith(raw, sDiffGit)
    THEN st
    ELSE IF StartsWith(raw, sPlusB)
    THEN [st EXCEPT !.current_file = SubSeq(raw, 7, Len(raw)),
                    !.changed_lines = SetDefault(st.changed_lines, SubSeq(raw, 7, Len(raw)))]
    ELSE IF StartsWith(raw, sAtAt)
    THEN AcceptHunk(st, HunkNewStart(raw))
    ELSE IF ~st.in_hunk \/ st.current_file = NoStr \/ st.new_line = NoneInt
    THEN st
    ELSE IF StartsWith(raw, <<"+">>) /\ ~StartsWith(raw, sPlus3)
    THEN [st EXCEPT !.changed_lines = AddLine(st.changed_lines, st.current_file, st.new_line),
                    !.new_line = st.new_line + 1]
    ELSE IF StartsWith(raw, <<"-">>) /\ ~StartsWith(raw, sMinus3)
    THEN st
    ELSE [st EXCEPT !.new_line = st.new_line + 1]

\* one iteration of "for raw in lines" on the loop state st
WalkLine(st, raw) ==
    IF StartsWith(raw, sDiffGit)
    THEN [st EXCEPT !.current_file = NoStr, !.in_hunk = FALSE, !.new_line = NoneInt]
    ELSE IF StartsWith(raw, sPlusB)
    THEN [st EXCEPT !.current_file = SubSeq(raw, 7, Len(raw)),
                    !.changed_lines = SetDefault(st.changed_lines, SubSeq(raw, 7, Len(raw)))]
    ELSE IF StartsWith(raw, sAtAt)
    THEN AcceptHunk(st, HunkNewStart(raw))
    ELSE IF ~st.in_hunk \/ st.current_file = NoStr \/ st.new_line = NoneInt
    THEN st
    ELSE IF StartsWith(raw, <<"+">>) /\ ~StartsWith(raw, sPlus3)
    THEN [st EXCEPT !.changed_lines = AddLine(st.changed_lines, st.current_file, st.new_line),
                    !.new_line = st.new_line + 1]
    ELSE IF StartsWith(raw, <<"-">>) /\ ~StartsWith(raw, sMinus3)
    THEN st
    ELSE [st EXCEPT !.new_line = st.new_line + 1]

WalkStart == [current_file |-> NoStr, in_hunk |-> FALSE, new_line |-> NoneInt,
              changed_lines |-> EmptyDict]

\* the loop over lines[1..n], from the start state
RECURSIVE WalkLines(_, _)
WalkLines(lines, n) == IF n = 0 THEN WalkStart ELSE WalkLine(WalkLines(lines, n - 1), lines[n])

\* get_changed_lines(diff_text), the text given as the list diff_text.split('\n')
get_changed_lines(lines) == WalkLines(lines, Len(lines)).changed_lines

(***************************************************************************)
(* is_cvc5_function / normalize_code                                       *)
(***************************************************************************)
sStdNs == <<"s","t","d",":",":">>
sGnuNs == <<"_","_","g","n","u","_","c","x","x",":",":">>
sCvc5Ns == <<"c","v","c","5",":",":">>
sColons == <<":",":">>
sUnder2 == <<"_","_">>

\* s.find(p) + 1: the index of the first occurrence of p in s, 0 if there is none
FindFrom(s, p, i) ==
    IF \E k \in i..(Len(s) - Len(p) + 1) : OccursAt(s, p, k)
    THEN CHOOSE k \in i..(Len(s) - Len(p) + 1) :
            OccursAt(s, p, k) /\ \A m \in i..(k - 1) : ~OccursAt(s, p, m)
    ELSE 0

\* head.split('::', 1)[0] is ns: a namespace that is neither std nor reserved
AcceptedNamespace(ns) ==
    Len(ns) > 0 /\ ns # <<"s","t","d">> /\ ~StartsWith(ns, sUnder2)
    /\ ns # <<"_","_","g","n","u","_","c","x","x">>

\* the tests of lines 514 and 511 in the other order
Cvc5FirstHead(head) ==
    IF Contains(head, sCvc5Ns) THEN TRUE
    ELSE IF StartsWith(head, sStdNs) \/ StartsWith(head, sUnder2) \/ StartsWith(head, sGnuNs) THEN FALSE
    ELSE IF Contains(head, sColons)
    THEN AcceptedNamespace(SubSeq(head, 1, FindFrom(head, sColons, 1) - 1))
    ELSE FALSE

HeadIsCvc5(head) ==
    IF StartsWith(head, sStdNs) \/ StartsWith(head, sUnder2) \/ StartsWith(head, sGnuNs) THEN FALSE
    ELSE IF Contains(head, sCvc5Ns) THEN TRUE
    ELSE IF Contains(head, sColons)
    THEN AcceptedNamespace(SubSeq(head, 1, FindFrom(head, sColons, 1) - 1))
    ELSE FALSE

\* head = signature.split('(')[0]
is_cvc5_function(signature) == HeadIsCvc5(SubSeq(signature, 1, FirstIn(signature, {"("}, 1) - 1))

\* re.sub(r'//.*', '', code): index i lies in a match when "//" occurs on its
\* line at or before i ('.' does not match a newline)
InLineComment(s, i) ==
    \E p \in (LastIn(s, {"\n"}, i) + 1)..i : OccursAt(s, <<"/","/">>, p)

RECURSIVE RemoveLineCommentsRange(_, _, _)
RemoveLineCommentsRange(s, lo, hi) ==
    IF lo > hi THEN <<>>
    ELSE IF lo = hi THEN (IF InLineComment(s, lo) THEN <<>> ELSE <<s[lo]>>)
    ELSE RemoveLineCommentsRange(s, lo, (lo + hi) \div 2)
         \o RemoveLineCommentsRange(s, (lo + hi) \div 2 + 1, hi)

RemoveLineComments(s) == RemoveLineCommentsRange(s, 1, Len(s))

\* re.sub(r'/\*.*?\*/', '', code, flags=re.S): a match starts at "/*" and ends
\* with the first "*/" that starts at least two characters later
BlockStep(s, acc, i, close) ==
    IF i < acc.resume THEN acc
    ELSE IF OccursAt(s, <<"/","*">>, i) /\ close # 0
    THEN [out |-> acc.out, resume |-> close + 2]
    ELSE [out |-> Append(acc.out, s[i]), resume |-> acc.resume]

RECURSIVE BlockRange(_, _, _, _)
RECURSIVE BlockRest(_, _, _, _)
BlockRange(s, acc, lo, hi) ==
    IF lo > hi THEN acc
    ELSE IF lo = hi THEN BlockStep(s, acc, lo, FindFrom(s, <<"*","/">>, lo + 2))
    ELSE BlockRest(s, BlockRange(s, acc, lo, (lo + hi) \div 2), (lo + hi) \div 2 + 1, hi)

BlockRest(s, left, lo, hi) == IF left.resume >= 0 THEN BlockRange(s, left, lo, hi) ELSE left

RemoveBlockComments(s) == BlockRange(s, [out |-> <<>>, resume |-> 1], 1, Len(s)).out

\* a comparison of the bodies as they are written
StripOnly(code) == Strip(code)

normalize_code(code) == Strip(CollapseWs(RemoveBlockComments(RemoveLineComments(code))))

\* "\n".join(lines[lo..hi])
RECURSIVE JoinLines(_, _, _)
JoinLines(lines, lo, hi) ==
    IF lo > hi THEN <<>>
    ELSE IF lo = hi THEN lines[lo]
    ELSE JoinLines(lines, lo, (lo + hi) \div 2) \o <<"\n">>
         \o JoinLines(lines, (lo + hi) \div 2 + 1, hi)

Max(a, b) == IF a >= b THEN a ELSE b
Min(a, b) == IF a <= b THEN a ELSE b

\* normalized_body(src, f), the text given as src.splitlines()
normalized_body(lines, f) ==
    normalize_code(JoinLines(lines, Max(1, f.start), Min(Len(lines), f.end)))

(***************************************************************************)
(* parse_functions_from_text: the definitions that the AST walk reports    *)
(* for a revision of a file.  A file is the list of its lines; a line of   *)
(* Headers opens a function definition, a line starting with "}" closes    *)
(* the innermost open one, and the extent of a definition runs from its    *)
(* opening line to its closing line.                                       *)
(***************************************************************************)
hF == <<"v","o","i","d"," ","c","v","c","5",":",":","f","(",")","{">>
hG == <<"v","o","i","d"," ","c","v","c","5",":",":","g","(",")","{">>
hK == <<"v","o","i","d"," ","c","v","c","5",":",":","k","(",")","{">>
hAf == <<"v","o","i","d"," ","c","v","c","5",":",":","A","<","T",">",":",":","f","(",")","{">>
hBf == <<"v","o","i","d"," ","c","v","c","5",":",":","B","<","T",">",":",":","f","(",")","{">>
hMain == <<"i","n","t"," ","m","a","i","n","(",")","{">>
hLocal == <<"s","t","r","u","c","t"," ","L","{","v","o","i","d"," ","h","(",")","{">>
sCloseBrace == <<"}">>
sCloseLocal == <<"}","}",";">>
sX == <<"x",";">>
sY == <<"y",";">>
sZ == <<"z",";">>
sBlank == <<>>
sLineComment == <<"/","/","c">>
sBlockComment == <<"/","*","c","*","/">>

Headers == {hF, hG, hK, hAf, hBf, hMain, hLocal}

\* get_qualified_name joins the spellings of the enclosing namespaces, classes,
\* structs and functions; a class template is none of these kinds, so a method
\* of A<T> and one of B<T> get the same name.  No definition here has
\* parameters, an ABI tag or a const qualifier.
QualifiedSignature(line) ==
    CASE line = hF -> <<"c","v","c","5",":",":","f","(",")">>
      [] line = hG -> <<"c","v","c","5",":",":","g","(",")">>
      [] line = hK -> <<"c","v","c","5",":",":","k","(",")">>
      [] line = hAf -> <<"c","v","c","5",":",":","f","(",")">>
      [] line = hBf -> <<"c","v","c","5",":",":","f","(",")">>
      [] line = hMain -> <<"m","a","i","n","(",")">>
      [] line = hLocal -> <<"c","v","c","5",":",":","f",":",":","L",":",":","h","(",")">>
      [] OTHER -> NoStr

\* f"{qualified_name}({param_str}){abi_info}{const_suffix}:{line}"
get_function_signature(line, ln) == QualifiedSignature(line) \o <<":">> \o Dec(ln)

IsHeader(line) == line \in Headers
IsCloser(line) == StartsWith(line, sCloseBrace)
IsStatement(line) == ~IsHeader(line) /\ ~IsCloser(line)

\* definitions opened minus definitions closed on the lines i..j
Balance(lines, i, j) ==
    Cardinality({k \in i..j : IsHeader(lines[k])}) - Cardinality({k \in i..j : IsCloser(lines[k])})

\* n.extent.end.line of the definition that line i opens
ExtentEnd(lines, i) ==
    IF \E j \in i..Len(lines) : Balance(lines, i, j) = 0
    THEN CHOOSE j \in i..Len(lines) :
            Balance(lines, i, j) = 0 /\ \A m \in i..(j - 1) : Balance(lines, i, m) # 0
    ELSE Len(lines)

\* sorted(S) for a set of integers
SortedSeq(S) ==
    [k \in 1..Cardinality(S) |-> CHOOSE x \in S : Cardinality({y \in S : y < x}) = k - 1]

\* the opening lines of the definitions that pass is_cvc5_function
DefinitionLines(lines) ==
    {i \in 1..Len(lines) :
        IsHeader(lines[i]) /\ is_cvc5_function(get_function_signature(lines[i], i))}

FuncAt(lines, i) ==
    [signature |-> get_function_signature(lines[i], i),
     alt_signature |-> get_function_signature(lines[i], i),
     start |-> i, end |-> ExtentEnd(lines, i)]

FuncsAt(lines, starts) == [k \in 1..Len(starts) |-> FuncAt(lines, starts[k])]

\* a front-end whose failure goes unnoticed: the functions of the text whether
\* or not the parse raised
ParseUnguarded(src, parses) ==
    IF ~src.exists THEN <<>>
    ELSE FuncsAt(src.lines, SortedSeq(DefinitionLines(src.lines)))

\* the list funcs, in the order of the walk; [] when source_text is None or
\* the parse raises
parse_functions_from_text(src, parses) ==
    IF ~src.exists \/ ~parses THEN <<>>
    ELSE FuncsAt(src.lines, SortedSeq(DefinitionLines(src.lines)))

(***************************************************************************)
(* get_commit_diff: the text "git show -U0 --no-color" writes for a commit *)
(* that changes one block of lines per file                                *)
(***************************************************************************)
sNewFileMode == <<"n","e","w"," ","f","i","l","e"," ","m","o","d","e"," ","1","0","0","6","4","4">>
sCommitLine == <<"c","o","m","m","i","t"," ","1","f","3","a">>
sIndexLine == <<"i","n","d","e","x"," ","1","f","3","a",".",".","9","c","0","d"," ","1","0","0","6","4","4">>
sDevNull == <<"/","d","e","v","/","n","u","l","l">>
sACpp == <<"a",".","c","p","p">>

\* "@@ -a[,b] +c[,d] @@"; git leaves a count of 1 out
RenderRange(start, count) == Dec(start) \o (IF count = 1 THEN <<>> ELSE <<",">> \o Dec(count))
RenderHunkHeader(a, b, c, d) ==
    sAtAtMinus \o RenderRange(a, b) \o sSpPlus \o RenderRange(c, d) \o sSpAtAt

\* the number of leading lines that a and b share
CommonPrefix(a, b) ==
    CHOOSE k \in 0..Min(Len(a), Len(b)) :
        /\ \A i \in 1..k : a[i] = b[i]
        /\ k = Min(Len(a), Len(b)) \/ a[k + 1] # b[k + 1]

\* the number of trailing lines that a and b share beyond the common prefix p
CommonSuffix(a, b, p) ==
    CHOOSE k \in 0..(Min(Len(a), Len(b)) - p) :
        /\ \A i \in 0..(k - 1) : a[Len(a) - i] = b[Len(b) - i]
        /\ k = Min(Len(a), Len(b)) - p \/ a[Len(a) - k] # b[Len(b) - k]

\* n lines of lines from index lo, each behind the marker column
MarkedLines(marker, lines, lo, n) == [i \in 1..n |-> <<marker>> \o lines[lo + i - 1]]

\* the hunk that replaces the ndel lines after line p of a by the nadd lines
\* after line p of b
HunkLines(a, b, p, ndel, nadd) ==
    <<RenderHunkHeader(p + (IF ndel > 0 THEN 1 ELSE 0), ndel,
                       p + (IF nadd > 0 THEN 1 ELSE 0), nadd)>>
    \o MarkedLines("-", a, p + 1, ndel) \o MarkedLines("+", b, p + 1, nadd)

HunkOf(a, b, p, s) == HunkLines(a, b, p, Len(a) - p - s, Len(b) - p - s)

RevisionLines(src) == IF src.exists THEN src.lines ELSE <<>>

FileSection(fc) ==
    IF RevisionLines(fc.before) = RevisionLines(fc.after) THEN <<>>
    ELSE << sDiffGit \o <<"a","/">> \o fc.path \o <<" ","b","/">> \o fc.path,
            IF fc.before.exists THEN sIndexLine ELSE sNewFileMode,
            sMinus3 \o <<" ">> \o (IF fc.before.exists THEN <<"a","/">> \o fc.path ELSE sDevNull),
            sPlus3 \o <<" ">> \o (IF fc.after.exists THEN <<"b","/">> \o fc.path ELSE sDevNull) >>
         \o HunkOf(RevisionLines(fc.before), RevisionLines(fc.after),
                   CommonPrefix(RevisionLines(fc.before), RevisionLines(fc.after)),
                   CommonSuffix(RevisionLines(fc.before), RevisionLines(fc.after),
                                CommonPrefix(RevisionLines(fc.before), RevisionLines(fc.after))))

RECURSIVE FileSections(_)
FileSections(commit) ==
    IF Len(commit) = 0 THEN <<>> ELSE FileSection(Head(commit)) \o FileSections(Tail(commit))

\* diff_text.split('\n'): the commit header, the file sections, and the empty
\* string after the last newline
get_commit_diff(commit) == <<sCommitLine>> \o FileSections(commit) \o << <<>> >>

(***************************************************************************)
(* get_commit_functions: selection and emission                            *)
(***************************************************************************)
sDotCpp == <<".","c","p","p">>
sDotCc == <<".","c","c">>
sDotC == <<".","c">>
sDotH == <<".","h">>
sDotHpp == <<".","h","p","p">>

\* file_path.endswith(('.cpp', '.cc', '.c', '.h', '.hpp'))
IsCppPath(file_path) ==
    \/ EndsWith(file_path, sDotCpp) \/ EndsWith(file_path, sDotCc) \/ EndsWith(file_path, sDotC)
    \/ EndsWith(file_path, sDotH) \/ EndsWith(file_path, sDotHpp)

NoFunc == [signature |-> NoStr, alt_signature |-> NoStr, start |-> 0, end |-> 0]

\* candidates: the indices of the spans that contain ln
Candidates(funcs, ln) ==
    {i \in 1..Len(funcs) :
        is_cvc5_function(funcs[i].signature) /\ funcs[i].start <= ln /\ ln <= funcs[i].end}

\* key=lambda x: (end - start, start), compared as a tuple
SpanKeyLess(f, h) ==
    \/ f.end - f.start < h.end - h.start
    \/ (f.end - f.start = h.end - h.start /\ f.start < h.start)

\* the widest candidate
Outermost(funcs, cands) ==
    CHOOSE i \in cands : \A j \in cands : ~SpanKeyLess(funcs[i], funcs[j]) \/ i = j

\* min(candidates, key=...): the first candidate that no candidate is less than
Innermost(funcs, cands) ==
    CHOOSE i \in cands :
        /\ \A j \in cands : ~SpanKeyLess(funcs[j], funcs[i])
        /\ \A j \in cands : j < i => SpanKeyLess(funcs[i], funcs[j])

\* the position of key in the dict sel, 0 when it is not a key
KeyIndex(sel, key) ==
    IF \E i \in 1..Len(sel) : sel[i].key = key
    THEN CHOOSE i \in 1..Len(sel) : sel[i].key = key
    ELSE 0

\* a list that takes every chosen function
AppendChosen(sel, key, chosen) == Append(sel, [key |-> key, f |-> chosen])

\* selected[key] = chosen: a dict keeps the place of a key it already holds
SelectChosen(sel, key, chosen) ==
    IF KeyIndex(sel, key) # 0
    THEN [sel EXCEPT ![KeyIndex(sel, key)] = [key |-> key, f |-> chosen]]
    ELSE Append(sel, [key |-> key, f |-> chosen])

\* before_by_sig: of the parent's functions with one key the dict keeps the last
BeforeBySig(bfuncs, key) ==
    IF \E i \in 1..Len(bfuncs) : build_signature_key(bfuncs[i].signature) = key
    THEN CHOOSE i \in 1..Len(bfuncs) :
            /\ build_signature_key(bfuncs[i].signature) = key
            /\ \A j \in (i + 1)..Len(bfuncs) :
                   build_signature_key(bfuncs[j].signature) # key
    ELSE 0

BodiesEqual(before_src, bf, after_src, f) ==
    normalized_body(before_src.lines, bf) = normalized_body(after_src.lines, f)

\* is_move: the function existed before and the normalised bodies are equal
IsMove(before_src, bfuncs, after_src, sig_key, f) ==
    /\ before_src.exists
    /\ BeforeBySig(bfuncs, sig_key) # 0
    /\ BodiesEqual(before_src, bfuncs[BeforeBySig(bfuncs, sig_key)], after_src, f)

\* d[key] = value
DictPut(d, key, value) == [k \in (DOMAIN d) \cup {key} |-> IF k = key THEN value ELSE d[k]]

\* f"{file_path}:{signature}"
MappingEntry(file_path, signature) == file_path \o <<":">> \o signature

(***************************************************************************)
(* The parts of the state that a specification does not use stay idle      *)
(***************************************************************************)
NormIdle == n_pc = 0 /\ n_input = NoStr /\ n_once = NoStr /\ n_twice = NoStr

\* the diff text stands before its first line
GStart == [phase |-> "start", files |-> 0, hunks |-> 0, kind |-> "none", path |-> NoStr,
           oldEnd |-> 0, newEnd |-> 0, remDel |-> 0, remAdd |-> 0, last |-> "none",
           header |-> NoStr]

DiffIdle ==
    /\ d_pc = "idle" /\ current_file = NoStr /\ in_hunk = FALSE /\ new_line = NoneInt
    /\ changed_lines = EmptyDict /\ g = GStart /\ g_truth = EmptyDict

\* get_commit_functions has not been called
CommitLocalsIdle ==
    /\ c_pc = "idle" /\ c_commit = <<>>
    /\ changed_files_lines = EmptyDict /\ c_order = <<>> /\ c_fi = 0
    /\ after_funcs = <<>> /\ before_funcs = <<>> /\ c_lines = <<>> /\ c_li = 0
    /\ selected = <<>> /\ c_ei = 0 /\ changed_functions = <<>>
    /\ c_picks = <<>> /\ c_emits = <<>>

CommitIdle == CommitLocalsIdle /\ alt_signature_map = EmptyDict

\* find_tests_for_functions has not been called
MatchIdle ==
    /\ m_pc = "idle" /\ coverage_map = <<>> /\ functions = <<>>
    /\ cov_full_to_tests = <<>> /\ cov_sig_to_tests = <<>> /\ m_i = 0
    /\ all_covering_tests = {}
    /\ functions_with_tests = 0 /\ functions_without_tests = 0
    /\ function_test_counts = EmptyDict /\ test_function_counts = EmptyDict
    /\ direct_matches = 0 /\ path_removed_matches = 0
    /\ match_log = <<>>

\* no pair of spellings is being compared
PairIdle ==
    /\ p_pc = "idle" /\ p_kind = "none" /\ p_func = NoStr /\ p_key = NoStr
    /\ p_func_nfs = NoStr /\ p_key_nfs = NoStr /\ p_func_norm = NoStr /\ p_key_norm = NoStr
    /\ p_match = [type |-> "none", tests |-> {}]

NoFile == [kind |-> "none", items |-> <<>>]
NoReport == [outcome |-> "none"]

\* no analyzer is in use for a sequence of commits
SessIdle ==
    /\ s_pc = "off" /\ s_calls = 0 /\ s_file = NoFile /\ s_map_type = "NoneType"
    /\ s_loads = 0 /\ s_loaded = <<>> /\ s_report = NoReport /\ s_vcs = "ok"

NoArgs == [call |-> [commit |-> <<>>, vcs |-> "ok"], file |-> NoFile]

\* main is not running
CliIdle ==
    /\ x_pc = "off" /\ x_args = NoArgs /\ x_exit = NoneInt

NotRun == [exit |-> NoneInt, result |-> "none"]

\* oracle.py is not running
OracleIdle ==
    /\ o_pc = "off" /\ o_test = [exists |-> FALSE, unsupported |-> FALSE]
    /\ o_cvc5 = NotRun /\ o_solver = NotRun /\ o_exit = NoneInt

\* is_cvc5_function is not being called
QualIdle ==
    q_pc = "off" /\ q_head = NoStr /\ q_params = NoStr /\ q_answer = FALSE

\* lines 107-114: the monitor has seen nothing yet
ResourcesNormal == [status |-> "normal", paused |-> FALSE]

StatKeys == {"tests_processed", "tests_requeued", "tests_removed_unsupported",
             "tests_removed_timeout"}

\* lines 118-124: every counter is 0
NoStats == [k \in StatKeys |-> 0]

\* no fuzzer has been constructed
FuzzIdle ==
    /\ r_pc = "off" /\ time_limited = FALSE /\ time_expired = FALSE /\ shutdown_event = FALSE
    /\ resource_state = ResourcesNormal /\ test_queue = <<>> /\ workers = <<>>
    /\ stats = NoStats /\ f_done = NoStats /\ f_removed = {}

(***************************************************************************)
(* SpecNorm: normalize_to_compare applied to a signature and then to its   *)
(* own output.  The signatures are rendered as get_function_signature      *)
(* renders them: name(params)[abi tag][ const][:line].                     *)
(***************************************************************************)
MaxParams == 2

tInt == <<"i","n","t">>
tConstTRef == <<"c","o","n","s","t"," ","T","&">>
tTConstRef == <<"T"," ","c","o","n","s","t","&">>
tVecInt == sStdVector \o tInt \o <<">">>
tVecIntAlloc == sStdVector \o tInt \o <<",", " ">> \o sStdAllocator \o tInt \o <<">", " ", ">">>
tVecVecInt == sStdVector \o tVecInt \o <<">">>
tConstMapRef == <<"c","o","n","s","t"," ","s","t","d",":",":","m","a","p","<","K",","," ","V",">"," ","&">>
tTPtr == <<"T"," ","*">>

TypePool == {tInt, tConstTRef, tTConstRef, tVecInt, tVecIntAlloc, tVecVecInt, tConstMapRef, tTPtr}

sNameF == <<"f","(">>
sKeyF == <<"a",".","c","p","p",":","c","v","c","5",":",":","f","(">>
NamePool == {sNameF, sKeyF}

sClose == <<")">>
sCloseLine == <<")",":","1","2">>
sCloseAbiConstLine == <<")","[","a","b","i",":","c","x","x","1","1","]"," ","c","o","n","s","t",":","7">>
SuffixPool == {sClose, sCloseLine, sCloseAbiConstLine}

ParamLists == UNION {[1..n -> TypePool] : n \in 0..MaxParams}

RenderSignature(name, params, suffix) == name \o JoinWith(params, <<",", " ">>) \o suffix

SigPool == {RenderSignature(n, ps, x) : n \in NamePool, ps \in ParamLists, x \in SuffixPool}

NormInit ==
    /\ DiffIdle /\ CommitIdle /\ MatchIdle /\ PairIdle /\ SessIdle /\ CliIdle /\ OracleIdle /\ QualIdle /\ FuzzIdle
    /\ n_pc = 0
    /\ n_input \in SigPool
    /\ n_once = NoStr
    /\ n_twice = NoStr

NormalizeOnce ==
    /\ n_pc = 0
    /\ n_once' = normalize_to_compare(n_input)
    /\ n_pc' = 1
    /\ UNCHANGED <<n_input, n_twice, normOthers>>

NormalizeAgain ==
    /\ n_pc = 1
    /\ n_twice' = normalize_to_compare(n_once)
    /\ n_pc' = 2
    /\ UNCHANGED <<n_input, n_once, normOthers>>

NormNext == NormalizeOnce \/ NormalizeAgain

SpecNorm == NormInit /\ [][NormNext]_vars

\* C10: normalisation is idempotent: normalising the output of
\* normalize_to_compare again returns it unchanged.
C10_Idempotent == n_pc = 2 => n_twice = n_once

(***************************************************************************)
(* SpecDiff: get_changed_lines reads, line by line, a zero-context diff as *)
(* "git show -U0 --no-color" writes it: an optional commit header, then    *)
(* per file the "diff --git" line, an extended header line, the ---/+++    *)
(* lines and the hunks; a hunk is its header, the removed lines, then the  *)
(* added lines, and "\ No newline at end of file" may follow the last line *)
(* of either side.  g records where the text stands (g.header: the name    *)
(* after "+++ b/" on the last line that starts so since the last           *)
(* "diff --git" line) and g_truth what the text says: for each "+++ b/"    *)
(* file, the numbers of its added lines.                                   *)
(***************************************************************************)
MaxFiles == 2
MaxHunks == 2
MaxDel == 1
MaxAdd == 2
MaxGap == 1

sOldMode == <<"o","l","d"," ","m","o","d","e"," ","1","0","0","6","4","4">>
sNoNewline == <<"\\"," ","N","o"," ","n","e","w","l","i","n","e"," ","a","t"," ","e","n","d"," ","o","f"," ","f","i","l","e">>
sBH == <<"b",".","h">>
DiffPaths == <<sACpp, sBH, <<"c",".","c","c">>, <<"d",".","h","p","p">> >>

\* the text of an added line and of a removed line (without the +/- column)
AddTexts == {<<"x",";">>, <<"+","+","i",";">>, <<"+","+"," ","b","/","y">>}
DelTexts == {<<"y",";">>, <<"-","-","j",";">>}

\* modify: both sides exist; create: the parent has no such file; delete: the
\* commit removes it; mode: a mode change, no content hunks
FileKinds == {"modify", "create", "delete", "mode"}

CodeState == [current_file |-> current_file, in_hunk |-> in_hunk, new_line |-> new_line,
              changed_lines |-> changed_lines]

\* the loop body runs on the line raw
Consume(raw) ==
    /\ current_file' = WalkLine(CodeState, raw).current_file
    /\ in_hunk' = WalkLine(CodeState, raw).in_hunk
    /\ new_line' = WalkLine(CodeState, raw).new_line
    /\ changed_lines' = WalkLine(CodeState, raw).changed_lines

HunkOpen == g.phase = "body" /\ (g.remDel > 0 \/ g.remAdd > 0)
HunkClosed == g.phase = "body" /\ g.remDel = 0 /\ g.remAdd = 0
SectionClosed == HunkClosed \/ g.phase = "modeDone"

DiffInit ==
    /\ NormIdle /\ CommitIdle /\ MatchIdle /\ PairIdle /\ SessIdle /\ CliIdle /\ OracleIdle /\ QualIdle /\ FuzzIdle
    /\ d_pc = "walk" /\ current_file = NoStr /\ in_hunk = FALSE /\ new_line = NoneInt
    /\ changed_lines = EmptyDict /\ g = GStart /\ g_truth = EmptyDict

\* "commit <hash>", first line of the output of git show
CommitLine ==
    /\ d_pc = "walk" /\ g.phase = "start"
    /\ Consume(sCommitLine)
    /\ g' = [g EXCEPT !.phase = "preamble"]
    /\ UNCHANGED <<d_pc, g_truth, diffOthers>>

\* "diff --git a/<path> b/<path>"
DiffGitLine ==
    /\ d_pc = "walk"
    /\ g.phase \in {"start", "preamble"} \/ SectionClosed
    /\ g.files < MaxFiles
    /\ \E kind \in FileKinds :
          /\ Consume(sDiffGit \o <<"a","/">> \o DiffPaths[g.files + 1]
                     \o <<" ","b","/">> \o DiffPaths[g.files + 1])
          /\ g' = [g EXCEPT !.phase = "git", !.files = g.files + 1, !.kind = kind,
                            !.path = DiffPaths[g.files + 1], !.oldEnd = 0, !.newEnd = 0,
                            !.remDel = 0, !.remAdd = 0, !.last = "none",
                            !.header = NoStr]
    /\ UNCHANGED <<d_pc, g_truth, diffOthers>>

\* "index ..", or "old mode .." for a mode change
ExtendedHeaderLine ==
    /\ d_pc = "walk" /\ g.phase = "git"
    /\ Consume(IF g.kind = "mode" THEN sOldMode ELSE sIndexLine)
    /\ g' = [g EXCEPT !.phase = IF g.kind = "mode" THEN "modeDone" ELSE "index"]
    /\ UNCHANGED <<d_pc, g_truth, diffOthers>>

\* "--- a/<path>" or "--- /dev/null"
OldFileLine ==
    /\ d_pc = "walk" /\ g.phase = "index"
    /\ Consume(sMinus3 \o <<" ">> \o (IF g.kind = "create" THEN sDevNull ELSE <<"a","/">> \o g.path))
    /\ g' = [g EXCEPT !.phase = "old"]
    /\ UNCHANGED <<d_pc, g_truth, diffOthers>>

\* "+++ b/<path>" or "+++ /dev/null"
NewFileLine ==
    /\ d_pc = "walk" /\ g.phase = "old"
    /\ Consume(sPlus3 \o <<" ">> \o (IF g.kind = "delete" THEN sDevNull ELSE <<"b","/">> \o g.path))
    /\ g' = [g EXCEPT !.phase = "new",
                      !.header = IF g.kind = "delete" THEN g.header ELSE g.path]
    /\ g_truth' = IF g.kind = "delete" THEN g_truth ELSE SetDefault(g_truth, g.path)
    /\ UNCHANGED <<d_pc, diffOthers>>

\* a hunk of ndel removed and nadd added lines after gap unchanged lines; the
\* text holds at most MaxHunks hunks
HunkHeaderLine ==
    /\ d_pc = "walk"
    /\ g.phase = "new" \/ (HunkClosed /\ g.kind = "modify")
    /\ g.hunks < MaxHunks
    /\ \E gap \in 0..MaxGap, ndel \in 0..MaxDel, nadd \in 0..MaxAdd :
          /\ ndel + nadd > 0
          /\ g.phase = "body" => gap > 0
          /\ g.kind = "create" => (ndel = 0 /\ gap = 0)
          /\ g.kind = "delete" => (nadd = 0 /\ gap = 0)
          /\ Consume(RenderHunkHeader(
                 g.oldEnd + gap + (IF ndel > 0 THEN 1 ELSE 0), ndel,
                 g.newEnd + gap + (IF nadd > 0 THEN 1 ELSE 0), nadd))
          /\ g' = [g EXCEPT !.phase = "body", !.hunks = g.hunks + 1,
                            !.oldEnd = g.oldEnd + gap, !.newEnd = g.newEnd + gap,
                            !.remDel = ndel, !.remAdd = nadd, !.last = "none"]
    /\ UNCHANGED <<d_pc, g_truth, diffOthers>>

\* "-<text>": a line of the parent that the commit removes
RemovedLine ==
    /\ d_pc = "walk" /\ g.phase = "body" /\ g.remDel > 0
    /\ \E text \in DelTexts : Consume(<<"-">> \o text)
    /\ g' = [g EXCEPT !.remDel = g.remDel - 1, !.oldEnd = g.oldEnd + 1, !.last = "del"]
    /\ UNCHANGED <<d_pc, g_truth, diffOthers>>

\* "+<text>": a line of the post-commit file, number newEnd + 1
AddedLine ==
    /\ d_pc = "walk" /\ g.phase = "body" /\ g.remDel = 0 /\ g.remAdd > 0
    /\ \E text \in AddTexts :
          /\ Consume(<<"+">> \o text)
          /\ g' = [g EXCEPT !.remAdd = g.remAdd - 1, !.newEnd = g.newEnd + 1, !.last = "add",
                            !.header = IF StartsWith(<<"+">> \o text, sPlusB)
                                       THEN SubSeq(text, 6, Len(text)) ELSE g.header]
    /\ g_truth' = AddLine(g_truth, g.path, g.newEnd + 1)
    /\ UNCHANGED <<d_pc, diffOthers>>

\* "\ No newline at end of file" after the last line of one side of a hunk
NoNewlineLine ==
    /\ d_pc = "walk" /\ g.phase = "body"
    /\ \/ g.last = "del" /\ g.remDel = 0
       \/ g.last = "add" /\ g.remAdd = 0
    /\ Consume(sNoNewline)
    /\ g' = [g EXCEPT !.last = "marker"]
    /\ UNCHANGED <<d_pc, g_truth, diffOthers>>

\* the empty string that split('\n') leaves after the last newline; the loop
\* ends and changed_lines is returned
LastLine ==
    /\ d_pc = "walk"
    /\ g.phase \in {"start", "preamble"} \/ SectionClosed
    /\ Consume(<<>>)
    /\ d_pc' = "returned"
    /\ UNCHANGED <<g, g_truth, diffOthers>>

DiffNext ==
    \/ CommitLine \/ DiffGitLine \/ ExtendedHeaderLine \/ OldFileLine \/ NewFileLine
    \/ HunkHeaderLine \/ RemovedLine \/ AddedLine \/ NoNewlineLine \/ LastLine

SpecDiff == DiffInit /\ [][DiffNext]_vars

\* C1: for every zero-context diff, whatever the text of its added and removed
\* lines and whatever marker lines it holds, the returned map has, for every
\* file with a "+++ b/" header, exactly the post-commit numbers of its added
\* lines, and no entry for any other file.
C1_ExactAddedLines == d_pc = "returned" => changed_lines = g_truth

\* the numbers that the step adds to the map
Recorded == UNION {changed_lines'[f] \ (IF f \in DOMAIN changed_lines THEN changed_lines[f] ELSE {}) :
                   f \in DOMAIN changed_lines'}

\* the step reads a line of the body of the hunk the walk is in
InsideHunk == g.phase = "body" /\ g'.phase = "body" /\ g'.hunks = g.hunks /\ g'.files = g.files

\* C24: while a hunk is walked, every line beginning with the removal marker
\* '-' leaves new_line and the changed-line map unchanged, whatever the text
\* of the removed line, and the numbers recorded within one hunk are strictly
\* increasing: the counter never goes back and passes each number it records.
C24_DeletionFrame ==
    [][/\ RemovedLine => (new_line' = new_line /\ changed_lines' = changed_lines)
       /\ (InsideHunk /\ in_hunk) =>
              (new_line' >= new_line /\ \A n \in Recorded : new_line <= n /\ n < new_line')]_vars

\* the files whose set of numbers the step changes
Attributed == {f \in DOMAIN changed_lines' :
                  changed_lines'[f] # (IF f \in DOMAIN changed_lines THEN changed_lines[f] ELSE {})}

\* the "+c" that the hunk header just written carries
HeaderStart == g'.newEnd + (IF g'.remAdd > 0 THEN 1 ELSE 0)

MaxDelLines == 1

tSeq == <<hF, sX, sCloseBrace, hG, sY, sCloseBrace>>
tNested == <<hF, sX, hLocal, sY, sCloseLocal, sX, sCloseBrace>>
tMain == <<hMain, sX, sCloseBrace, hG, sY, sCloseBrace>>
tDup == <<hAf, sX, sCloseBrace, hBf, sY, sCloseBrace>>
\* a function over the lines 1..100 with a local definition over 40..60
tBig ==
    [i \in 1..100 |->
        IF i = 1 THEN hF ELSE IF i = 40 THEN hLocal ELSE IF i = 60 THEN sCloseLocal
        ELSE IF i = 100 THEN sCloseBrace ELSE sX]

\* a parent revision, and the places where the commits edit it
Templates ==
    {[lines |-> t, at |-> 1..(Len(t) + 1)] : t \in {tSeq, tNested, tMain, tDup}}
    \cup {[lines |-> tBig, at |-> {50}]}

\* the lines a commit puts in the place of the lines it removes
InsertBlocks ==
    {<<>>, <<sBlank>>, <<sLineComment>>, <<sBlockComment>>, <<sZ>>, <<sZ, sZ>>,
     <<hK, sZ, sCloseBrace>>}

ApplyEdit(lines, pos, ndel, block) ==
    SubSeq(lines, 1, pos - 1) \o block \o SubSeq(lines, pos + ndel, Len(lines))

\* an edit removes statements only, and changes the file
IsEdit(lines, pos, ndel, block) ==
    /\ pos + ndel - 1 <= Len(lines)
    /\ \A k \in pos..(pos + ndel - 1) : IsStatement(lines[k])
    /\ ApplyEdit(lines, pos, ndel, block) # lines

Revision(lines) == [exists |-> TRUE, lines |-> lines]
NoRevision == [exists |-> FALSE, lines |-> <<>>]

EditsOf(t) ==
    {e \in [pos : t.at, ndel : 0..MaxDelLines, block : InsertBlocks] :
        IsEdit(t.lines, e.pos, e.ndel, e.block)}

FileChange(path, before, after, bp, ap) ==
    [path |-> path, before |-> before, after |-> after, before_parses |-> bp, after_parses |-> ap]

\* the commit edits a file of the parent
EditedFiles ==
    UNION {{FileChange(sACpp, Revision(t.lines),
                       Revision(ApplyEdit(t.lines, e.pos, e.ndel, e.block)), bp, ap) :
               e \in EditsOf(t), bp \in BOOLEAN, ap \in BOOLEAN} : t \in Templates}

\* the commit creates the file
CreatedFiles ==
    {FileChange(sACpp, NoRevision, Revision(t), TRUE, ap) :
        t \in {tSeq, tNested, tMain, tDup}, ap \in BOOLEAN}

sNMd == <<"n",".","m","d">>
DocChange == FileChange(sNMd, Revision(<<sX>>), Revision(<<sX, sZ>>), TRUE, TRUE)

sBCpp == <<"b",".","c","p","p">>

\* a second C/C++ file of the commit: a statement added to f or to g, or a
\* blank line added to f
SecondFiles ==
    {FileChange(sBCpp, Revision(tSeq), Revision(ApplyEdit(tSeq, e.pos, 0, e.block)), bp, ap) :
        e \in {[pos |-> 2, block |-> <<sZ>>], [pos |-> 5, block |-> <<sZ>>],
                [pos |-> 2, block |-> <<sBlank>>]},
        bp \in BOOLEAN, ap \in BOOLEAN}

\* the changes to a.cpp that come with a second C/C++ file
FirstFiles == {fc \in EditedFiles \cup CreatedFiles : fc.before.lines \in {<<>>, tSeq}}

CommitPool ==
    {<<fc>> : fc \in EditedFiles \cup CreatedFiles}
    \cup {<<fc, DocChange>> : fc \in EditedFiles \cup CreatedFiles}

\* the commits that change two C/C++ files
FilePairs ==
    {<<fc, sc>> : fc \in FirstFiles, sc \in SecondFiles}
    \cup {<<fc, DocChange, sc>> : fc \in CreatedFiles, sc \in SecondFiles}

\* the keys of the dict, in the order of their "+++ b/" headers
RECURSIVE DictOrder(_, _)
DictOrder(commit, dict) ==
    IF Len(commit) = 0 THEN <<>>
    ELSE (IF Head(commit).path \in DOMAIN dict THEN <<Head(commit).path>> ELSE <<>>)
         \o DictOrder(Tail(commit), dict)

ChangeOf(commit, path) == commit[CHOOSE i \in 1..Len(commit) : commit[i].path = path]

\* the file of the current iteration of "for file_path, changed_lines in ..."
CurrentChange == ChangeOf(c_commit, c_order[c_fi])

\* get_commit_functions is called on a new analyzer
CommitStart ==
    /\ NormIdle /\ DiffIdle /\ MatchIdle /\ PairIdle /\ SessIdle /\ CliIdle /\ OracleIdle /\ QualIdle /\ FuzzIdle
    /\ c_pc = "start"
    /\ changed_files_lines = EmptyDict /\ c_order = <<>> /\ c_fi = 0
    /\ after_funcs = <<>> /\ before_funcs = <<>> /\ c_lines = <<>> /\ c_li = 0
    /\ selected = <<>> /\ c_ei = 0 /\ changed_functions = <<>>
    /\ alt_signature_map = EmptyDict /\ c_picks = <<>> /\ c_emits = <<>>

CommitInit == CommitStart /\ c_commit \in CommitPool

\* the diff taken for the full text although git failed
DiffRegardless(vcs, commit) == get_commit_diff(commit)

\* lines 97-112 and 540: diff_text.split('\n'); the text is "" when repo.commit or
\* the call of git raises, and when git ends in an error without output
diff_text(vcs, commit) == IF vcs = "ok" THEN get_commit_diff(commit) ELSE << <<>> >>

\* lines 532-549: the diff of the commit and its changed lines
AnalyzeCommit ==
    /\ c_pc = "start" /\ s_vcs # "no_commit"
    /\ changed_files_lines' = get_changed_lines(diff_text(s_vcs, c_commit))
    /\ c_order' = DictOrder(c_commit, get_changed_lines(diff_text(s_vcs, c_commit)))
    /\ c_fi' = 1
    /\ changed_functions' = <<>>
    /\ c_pc' = "file"
    /\ UNCHANGED <<c_commit, after_funcs, before_funcs, c_lines, c_li, selected, c_ei,
                   alt_signature_map, c_picks, c_emits, commitOthers>>

\* lines 552-561: a file that is no C/C++ source, or has no post-commit text
SkipFile ==
    /\ c_pc = "file" /\ c_fi <= Len(c_order)
    /\ ~IsCppPath(c_order[c_fi]) \/ ~CurrentChange.after.exists
    /\ c_fi' = c_fi + 1
    /\ UNCHANGED <<c_pc, c_commit, changed_files_lines, c_order, after_funcs, before_funcs,
                   c_lines, c_li, selected, c_ei, changed_functions, alt_signature_map,
                   c_picks, c_emits, commitOthers>>

\* lines 559-582: both revisions are parsed; without post-commit functions
\* no line is looked at
ParseFile ==
    /\ c_pc = "file" /\ c_fi <= Len(c_order)
    /\ IsCppPath(c_order[c_fi]) /\ CurrentChange.after.exists
    /\ after_funcs' = parse_functions_from_text(CurrentChange.after, CurrentChange.after_parses)
    /\ before_funcs' = parse_functions_from_text(CurrentChange.before, CurrentChange.before_parses)
    /\ selected' = <<>>
    /\ c_lines' = IF Len(after_funcs') > 0
                  THEN SortedSeq(changed_files_lines[c_order[c_fi]]) ELSE <<>>
    /\ c_li' = 1
    /\ c_pc' = "select"
    /\ UNCHANGED <<c_commit, changed_files_lines, c_order, c_fi, c_ei, changed_functions,
                   alt_signature_map, c_picks, c_emits, commitOthers>>

\* the function that the changed line ln selects, NoFunc if no span holds it
ChosenFor(funcs, ln) ==
    IF Candidates(funcs, ln) = {} THEN NoFunc
    ELSE funcs[Innermost(funcs, Candidates(funcs, ln))]

PickLine(ln, chosen) ==
    /\ selected' = IF chosen = NoFunc THEN selected
                   ELSE SelectChosen(selected, build_signature_key(chosen.signature), chosen)
    /\ c_picks' = Append(c_picks, [file |-> c_order[c_fi], ln |-> ln, chosen |-> chosen])

\* lines 583-590: one iteration of "for ln in sorted(changed_lines)"
SelectLine ==
    /\ c_pc = "select" /\ c_li <= Len(c_lines)
    /\ PickLine(c_lines[c_li], ChosenFor(after_funcs, c_lines[c_li]))
    /\ c_li' = c_li + 1
    /\ UNCHANGED <<c_pc, c_commit, changed_files_lines, c_order, c_fi, after_funcs,
                   before_funcs, c_lines, c_ei, changed_functions, alt_signature_map,
                   c_emits, commitOthers>>

\* line 593: the loop over the changed lines is over
BeginEmit ==
    /\ c_pc = "select" /\ c_li > Len(c_lines)
    /\ c_ei' = 1
    /\ c_pc' = "emit"
    /\ UNCHANGED <<c_commit, changed_files_lines, c_order, c_fi, after_funcs, before_funcs,
                   c_lines, c_li, selected, changed_functions, alt_signature_map, c_picks,
                   c_emits, commitOthers>>

EmitEntry(file_path, item, is_move) ==
    /\ changed_functions' =
           IF is_move THEN changed_functions
           ELSE Append(changed_functions, MappingEntry(file_path, item.f.signature))
    /\ alt_signature_map' =
           IF is_move \/ Len(item.f.alt_signature) = 0 THEN alt_signature_map
           ELSE DictPut(alt_signature_map, MappingEntry(file_path, item.f.signature),
                        MappingEntry(file_path, item.f.alt_signature))
    /\ c_emits' = Append(c_emits, [file |-> file_path, key |-> item.key, f |-> item.f,
                                   is_move |-> is_move])

\* lines 593-611: one iteration of "for sig_key, f in selected.items()"
EmitFunction ==
    /\ c_pc = "emit" /\ c_ei <= Len(selected)
    /\ EmitEntry(c_order[c_fi], selected[c_ei],
                 IsMove(CurrentChange.before, before_funcs, CurrentChange.after,
                        selected[c_ei].key, selected[c_ei].f))
    /\ c_ei' = c_ei + 1
    /\ UNCHANGED <<c_pc, c_commit, changed_files_lines, c_order, c_fi, after_funcs,
                   before_funcs, c_lines, c_li, selected, c_picks, commitOthers>>

\* the next file of the diff
EndFile ==
    /\ c_pc = "emit" /\ c_ei > Len(selected)
    /\ c_fi' = c_fi + 1
    /\ c_pc' = "file"
    /\ UNCHANGED <<c_commit, changed_files_lines, c_order, after_funcs, before_funcs,
                   c_lines, c_li, selected, c_ei, changed_functions, alt_signature_map,
                   c_picks, c_emits, commitOthers>>

\* lines 613-614: return changed_functions
ReturnFunctions ==
    /\ c_pc = "file" /\ c_fi > Len(c_order)
    /\ c_pc' = "returned"
    /\ UNCHANGED <<c_commit, changed_files_lines, c_order, c_fi, after_funcs, before_funcs,
                   c_lines, c_li, selected, c_ei, changed_functions, alt_signature_map,
                   c_picks, c_emits, commitOthers>>

CommitNext ==
    \/ AnalyzeCommit \/ SkipFile \/ ParseFile \/ SelectLine \/ BeginEmit \/ EmitFunction
    \/ EndFile \/ ReturnFunctions

SpecCommit == CommitInit /\ [][CommitNext]_vars

(***************************************************************************)
(* SpecFiles: get_commit_functions on a commit that changes two C/C++      *)
(* files; any of the four revisions may fail to parse.                     *)
(***************************************************************************)
FilesInit == CommitStart /\ c_commit \in FilePairs

SpecFiles == FilesInit /\ [][CommitNext]_vars

(***************************************************************************)
(* Properties of get_commit_functions                                      *)
(***************************************************************************)
(* get_commit_functions as a function of the commit: what the loop over    *)
(* the files leaves in changed_functions and in alt_signature_map          *)
(***************************************************************************)
PutChosen(sel, chosen) ==
    IF chosen = NoFunc THEN sel
    ELSE SelectChosen(sel, build_signature_key(chosen.signature), chosen)

\* selected after the first n of the sorted changed lines
RECURSIVE SelectedAfter(_, _, _)
SelectedAfter(funcs, lines, n) ==
    IF n = 0 THEN <<>>
    ELSE PutChosen(SelectedAfter(funcs, lines, n - 1), ChosenFor(funcs, lines[n]))

SelectedIn(funcs, lines) ==
    IF Len(funcs) > 0 THEN SelectedAfter(funcs, lines, Len(lines)) ELSE <<>>

\* the items of selected that are no pure moves
KeptOf(fc, bfuncs, sel) ==
    SelectSeq(sel, LAMBDA item : ~IsMove(fc.before, bfuncs, fc.after, item.key, item.f))

EmitsOf(fc, kept) ==
    [k \in 1..Len(kept) |->
        [entry |-> MappingEntry(fc.path, kept[k].f.signature),
         alt |-> IF Len(kept[k].f.alt_signature) = 0 THEN <<>>
                 ELSE MappingEntry(fc.path, kept[k].f.alt_signature)]]

\* one iteration of the loop over the files: what it emits
FileEmits(fc, lines) ==
    IF ~IsCppPath(fc.path) \/ ~fc.after.exists THEN <<>>
    ELSE EmitsOf(fc, KeptOf(fc, parse_functions_from_text(fc.before, fc.before_parses),
                            SelectedIn(parse_functions_from_text(fc.after, fc.after_parses),
                                       SortedSeq(lines))))

RECURSIVE EmitsAfter(_, _, _, _)
EmitsAfter(commit, dict, order, n) ==
    IF n = 0 THEN <<>>
    ELSE EmitsAfter(commit, dict, order, n - 1)
         \o FileEmits(ChangeOf(commit, order[n]), dict[order[n]])

EmitsIn(commit, dict) == EmitsAfter(commit, dict, DictOrder(commit, dict), Len(DictOrder(commit, dict)))

CommitEmits(commit) == EmitsIn(commit, get_changed_lines(get_commit_diff(commit)))

EntriesOf(emits) == [k \in 1..Len(emits) |-> emits[k].entry]

\* the list that get_commit_functions returns for the commit
get_commit_functions(commit) == EntriesOf(CommitEmits(commit))

\* alts after the first n emitted entries are recorded in it
RECURSIVE AltsAfter(_, _, _)
AltsAfter(alts, emits, n) ==
    IF n = 0 THEN alts
    ELSE IF Len(emits[n].alt) = 0 THEN AltsAfter(alts, emits, n - 1)
    ELSE DictPut(AltsAfter(alts, emits, n - 1), emits[n].entry, emits[n].alt)

\* self.alt_signature_map after get_commit_functions, when it held alts before
AltsWith(alts, commit) == AltsAfter(alts, CommitEmits(commit), Len(CommitEmits(commit)))

(***************************************************************************)
(* Properties of get_commit_functions on two C/C++ files                   *)
(***************************************************************************)
AfterFails(fc) == IsCppPath(fc.path) /\ fc.after.exists /\ ~fc.after_parses
BeforeFails(fc) == IsCppPath(fc.path) /\ fc.after.exists /\ fc.before.exists /\ ~fc.before_parses

\* the front-end fails on a revision that get_commit_functions has parsed
ParseFails(fc) == AfterFails(fc) \/ BeforeFails(fc)

\* the commit without its file i
Without(commit, i) == SubSeq(commit, 1, i - 1) \o SubSeq(commit, i + 1, Len(commit))

EntriesOfFile(entries, path) == SelectSeq(entries, LAMBDA e : StartsWith(e, path \o <<":">>))
EntriesOfOthers(entries, path) == SelectSeq(entries, LAMBDA e : ~StartsWith(e, path \o <<":">>))

\* while the file is worked on, the list of a revision that fails to parse is empty
FailedListsEmpty(fc) ==
    /\ AfterFails(fc) => after_funcs = <<>>
    /\ BeforeFails(fc) => before_funcs = <<>>

\* the list returned has nothing of a file whose post-commit revision fails, and
\* has of the other files what it has for the commit without the failing file
OthersUntouched(fc, rest) ==
    /\ AfterFails(fc) => EntriesOfFile(changed_functions, fc.path) = <<>>
    /\ EntriesOfOthers(changed_functions, fc.path) = get_commit_functions(rest)

\* C20: when the front-end fails on a revision of one file of the commit, the
\* function list of that revision is empty, get_commit_functions goes on to the
\* other files, and the entries it returns for them are exactly those it returns
\* for the commit without the failing file.
C20_ParseFailureIsolated ==
    /\ c_pc \in {"select", "emit"} => FailedListsEmpty(CurrentChange)
    /\ c_pc = "returned" =>
          \A i \in 1..Len(c_commit) :
              ParseFails(c_commit[i]) => OthersUntouched(c_commit[i], Without(c_commit, i))

\* the post-commit revision of a.cpp failed to parse, and the list returned holds
\* an entry of b.cpp
C20_Witness ==
    /\ c_pc = "returned"
    /\ AfterFails(c_commit[1]) /\ c_commit[1].path = sACpp
    /\ EntriesOfFile(changed_functions, sACpp) = <<>>
    /\ EntriesOfFile(changed_functions, sBCpp) # <<>>

(***************************************************************************)
\* the change to the C/C++ file of the commit, and what the parser reports
\* for its two revisions
CppChange == c_commit[1]
PostFuncs == parse_functions_from_text(CppChange.after, CppChange.after_parses)
ParentFuncs == parse_functions_from_text(CppChange.before, CppChange.before_parses)

KeyOf(f) == build_signature_key(f.signature)

\* the entry of f is in the list returned
Listed(f) ==
    \E i \in 1..Len(changed_functions) :
        changed_functions[i] = MappingEntry(CppChange.path, f.signature)

\* exactly one function of funcs has the key
UniqueKey(funcs, key) == Cardinality({i \in 1..Len(funcs) : KeyOf(funcs[i]) = key}) = 1

\* f of the commit and bf of the parent are the same function, and a token of
\* its body differs
TokenChanged(funcs, pfuncs, f, bf) ==
    /\ KeyOf(f) = KeyOf(bf)
    /\ UniqueKey(funcs, KeyOf(f)) /\ UniqueKey(pfuncs, KeyOf(f))
    /\ normalized_body(CppChange.before.lines, bf) # normalized_body(CppChange.after.lines, f)

TokenChangesListed(funcs, pfuncs) ==
    \A i \in 1..Len(funcs) : \A j \in 1..Len(pfuncs) :
        TokenChanged(funcs, pfuncs, funcs[i], pfuncs[j]) => Listed(funcs[i])

\* C2: every qualifying function of a C/C++ file whose body differs in at
\* least one token between the parent and the commit, whether the edit adds,
\* modifies or deletes lines, is in the changed-function list.
C2_TokenChangeListed == c_pc = "returned" => TokenChangesListed(PostFuncs, ParentFuncs)

\* the functions pfuncs of the parent hold one with the key of e whose
\* normalised body equals that of the selected function
HasEqualCounterpart(pfuncs, e) ==
    /\ CppChange.before.exists
    /\ \E j \in 1..Len(pfuncs) :
          /\ KeyOf(pfuncs[j]) = e.key
          /\ normalized_body(CppChange.before.lines, pfuncs[j])
                 = normalized_body(CppChange.after.lines, e.f)

DroppedIffCounterpart(pfuncs) ==
    \A k \in 1..Len(c_emits) : c_emits[k].is_move <=> HasEqualCounterpart(pfuncs, c_emits[k])

\* C3: a selected function is dropped as a pure move if and only if the parent
\* revision of the file has a function with the same signature key whose
\* normalised body is byte-equal to its own; without a counterpart in the
\* parent it is never dropped.
C3_DroppedIffCounterpart == Len(c_emits) > 0 => DroppedIffCounterpart(ParentFuncs)

\* the only change of the commit is one blank line, added as line pos of the
\* post-commit file
BlankLineAdded(pos) ==
    /\ Len(c_commit) = 1 /\ CppChange.before.exists
    /\ pos <= Len(CppChange.after.lines)
    /\ CppChange.after.lines[pos] = sBlank
    /\ CppChange.after.lines = ApplyEdit(CppChange.before.lines, pos, 0, <<sBlank>>)

\* line pos lies inside the body of f, and of no function inside f
InnermostBody(funcs, f, pos) ==
    /\ f.start < pos /\ pos < f.end
    /\ \A j \in 1..Len(funcs) :
          (funcs[j].start < pos /\ pos < funcs[j].end)
              => funcs[j].end - funcs[j].start >= f.end - f.start

\* the functions whose body the added blank line lies in, innermost first, are
\* all listed
BlankLineFunctionsListed(funcs) ==
    \A pos \in 1..Len(CppChange.after.lines) :
        BlankLineAdded(pos) =>
            \A i \in 1..Len(funcs) : InnermostBody(funcs, funcs[i], pos) => Listed(funcs[i])

\* C4 as the specification states it: a commit whose only change is one blank
\* line added inside the body of a function returns that function.
C4_BlankLineListed ==
    (c_pc = "returned" /\ CppChange.before_parses /\ CppChange.after_parses) =>
        BlankLineFunctionsListed(PostFuncs)

\* f was chosen for line pos
ChosenAt(f, pos) == \E k \in 1..Len(c_picks) : c_picks[k].ln = pos /\ c_picks[k].chosen = f

\* f is selected by overlap; it is not returned if the parent parses and has
\* one function with its key, and returned if the parent does not parse
SelectedThenDropped(f, pos, pfuncs) ==
    /\ ChosenAt(f, pos)
    /\ (CppChange.before_parses /\ UniqueKey(pfuncs, KeyOf(f))) => ~Listed(f)
    /\ ~CppChange.before_parses => Listed(f)

BlankLineFunctionsDropped(funcs, pfuncs) ==
    \A pos \in 1..Len(CppChange.after.lines) :
        BlankLineAdded(pos) =>
            \A i \in 1..Len(funcs) :
                InnermostBody(funcs, funcs[i], pos) => SelectedThenDropped(funcs[i], pos, pfuncs)

\* C4, amended: the function of the added blank line is selected by overlap and
\* then dropped as a pure move, so that it is not returned, when the parent
\* revision parses and has exactly one function with its signature key; it is
\* returned when the parent revision does not parse.
C4_BlankLineDropped ==
    (c_pc = "returned" /\ CppChange.after_parses) =>
        BlankLineFunctionsDropped(PostFuncs, ParentFuncs)

\* a blank line was added inside a function that the parent has too, and the
\* function was selected and dropped
C4_Witness ==
    /\ c_pc = "returned" /\ CppChange.after_parses /\ CppChange.before_parses
    /\ \E pos \in 1..Len(CppChange.after.lines) :
          /\ BlankLineAdded(pos)
          /\ \E k \in 1..Len(c_emits) :
                /\ InnermostBody(after_funcs, c_emits[k].f, pos)
                /\ UniqueKey(before_funcs, c_emits[k].key)
                /\ c_emits[k].is_move /\ ~Listed(c_emits[k].f)

\* the spans of funcs that contain line ln
Containing(funcs, ln) ==
    {i \in 1..Len(funcs) : funcs[i].start <= ln /\ ln <= funcs[i].end}

\* f has the smallest (end - start) of the spans Q of funcs, and of those with
\* that length the smallest start
IsInnermost(funcs, f, Q) ==
    \A j \in Q :
        \/ f.end - f.start < funcs[j].end - funcs[j].start
        \/ (f.end - f.start = funcs[j].end - funcs[j].start /\ f.start <= funcs[j].start)

PickIsInnermost(funcs, p, Q) ==
    IF Q = {} THEN p.chosen = NoFunc
    ELSE (\E i \in Q : p.chosen = funcs[i]) /\ IsInnermost(funcs, p.chosen, Q)

PicksAreInnermost(funcs) ==
    \A k \in 1..Len(c_picks) :
        PickIsInnermost(funcs, c_picks[k], Containing(funcs, c_picks[k].ln))

\* C5: for every changed line, the span chosen among the qualifying post-commit
\* spans that contain it is the one with the smallest (end - start), ties
\* broken by the smallest start; a line that no span contains selects nothing.
C5_InnermostChosen ==
    /\ PicksAreInnermost(PostFuncs)
    /\ (c_pc = "returned" /\ Len(after_funcs) > 0 /\ CppChange.path \in DOMAIN changed_files_lines)
           => {c_picks[k].ln : k \in 1..Len(c_picks)} = changed_files_lines[CppChange.path]

\* with the spans [1,100] and [40,60], the changed line 50 selected [40,60]
C5_Witness ==
    \E k \in 1..Len(c_picks) :
        /\ c_picks[k].ln = 50 /\ c_picks[k].chosen.start = 40 /\ c_picks[k].chosen.end = 60
        /\ \E j \in 1..Len(after_funcs) : after_funcs[j].start = 1 /\ after_funcs[j].end = 100

\* the entry is that of a function of funcs that is the innermost one of a
\* changed line
InnermostOfSomeLine(funcs, entry) ==
    /\ CppChange.path \in DOMAIN changed_files_lines
    /\ \E ln \in changed_files_lines[CppChange.path] : \E i \in Containing(funcs, ln) :
          /\ entry = MappingEntry(CppChange.path, funcs[i].signature)
          /\ IsInnermost(funcs, funcs[i], Containing(funcs, ln))

EntriesAreInnermost(funcs) ==
    \A i \in 1..Len(changed_functions) : InnermostOfSomeLine(funcs, changed_functions[i])

\* C6: the changed-function list has no duplicates, neither as entries nor as
\* file plus signature key, however many changed lines fall inside a function,
\* and every entry is the innermost enclosing function of a changed line.
C6_NoDuplicates ==
    /\ \A i, j \in 1..Len(changed_functions) :
          i # j => /\ changed_functions[i] # changed_functions[j]
                   /\ build_signature_key(changed_functions[i])
                          # build_signature_key(changed_functions[j])
    /\ Len(changed_functions) > 0 => EntriesAreInnermost(PostFuncs)

\* two changed lines chose the same function, and it is listed once
C6_Witness ==
    /\ c_pc = "returned"
    /\ \E k, m \in 1..Len(c_picks) :
          /\ k # m /\ c_picks[k].chosen # NoFunc /\ c_picks[k].chosen = c_picks[m].chosen
          /\ Listed(c_picks[k].chosen)

(***************************************************************************)
(* find_tests_for_functions: key splitting, the two lookup tables, the     *)
(* similarity ratio of difflib.SequenceMatcher and the matching tiers      *)
(***************************************************************************)
SplitAtColon(no_line, c) ==
    IF c <= Len(no_line)
    THEN [path |-> SubSeq(no_line, 1, c - 1), sig |-> SubSeq(no_line, c + 1, Len(no_line))]
    ELSE [path |-> <<>>, sig |-> no_line]

SplitNoLine(no_line) == SplitAtColon(no_line, FirstIn(no_line, {":"}, 1))

\* (path, sig) of a key: the line suffix goes, the first ':' separates
split_path_and_sig(key) == SplitNoLine(strip_line_suffix(key))

\* f"{path}:{sig}"
PathSig(ps) == ps.path \o <<":">> \o ps.sig

Range(s) == {s[i] : i \in 1..Len(s)}

\* d.setdefault(key, set()).update(tests) on a dict kept in insertion order
UpdateAt(d, i, key, tests) ==
    IF i = 0 THEN Append(d, [key |-> key, tests |-> tests])
    ELSE [d EXCEPT ![i].tests = @ \cup tests]

SetDefaultUpdate(d, key, tests) == UpdateAt(d, KeyIndex(d, key), key, tests)

\* cov_full_to_tests after the first n items of the coverage map
RECURSIVE CovFullToTests(_, _)
CovFullToTests(map, n) ==
    IF n = 0 THEN <<>>
    ELSE SetDefaultUpdate(CovFullToTests(map, n - 1),
                          normalize_to_compare(map[n].key), Range(map[n].tests))

\* cov_sig_to_tests after the first n items of the coverage map
RECURSIVE CovSigToTests(_, _)
CovSigToTests(map, n) ==
    IF n = 0 THEN <<>>
    ELSE SetDefaultUpdate(CovSigToTests(map, n - 1),
                          normalize_to_compare(split_path_and_sig(map[n].key).sig),
                          Range(map[n].tests))

\* length of the common run of a and b that starts at a[i], b[j] and stays
\* inside a[..ahi], b[..bhi]
RECURSIVE RunLen(_, _, _, _, _, _)
RunLen(a, b, i, j, ahi, bhi) ==
    IF i > ahi \/ j > bhi THEN 0
    ELSE IF a[i] # b[j] THEN 0
    ELSE 1 + RunLen(a, b, i + 1, j + 1, ahi, bhi)

\* the maximal common runs of a[alo..ahi] and b[blo..bhi]
RunsIn(a, b, alo, ahi, blo, bhi) ==
    {[i |-> p[1], j |-> p[2], size |-> RunLen(a, b, p[1], p[2], ahi, bhi)] :
        p \in {q \in (alo..ahi) \X (blo..bhi) :
                 /\ a[q[1]] = b[q[2]]
                 /\ (q[1] = alo \/ q[2] = blo \/ a[q[1] - 1] # b[q[2] - 1])}}

\* the longest run; of those the one earliest in a; of those the one earliest in b
LongestOf(runs, alo, blo) ==
    IF runs = {} THEN [i |-> alo, j |-> blo, size |-> 0]
    ELSE CHOOSE r \in runs :
            \A q \in runs :
                \/ q.size < r.size
                \/ q.size = r.size /\ (r.i < q.i \/ (r.i = q.i /\ r.j <= q.j))

find_longest_match(a, b, alo, ahi, blo, bhi) == LongestOf(RunsIn(a, b, alo, ahi, blo, bhi), alo, blo)

\* sum of the sizes of get_matching_blocks(): the longest match, then the same
\* to its left and to its right
RECURSIVE MatchedIn(_, _, _, _, _, _)
MatchedAround(a, b, alo, ahi, blo, bhi, m) ==
    IF m.size = 0 THEN 0
    ELSE m.size + MatchedIn(a, b, alo, m.i - 1, blo, m.j - 1)
                + MatchedIn(a, b, m.i + m.size, ahi, m.j + m.size, bhi)

MatchedIn(a, b, alo, ahi, blo, bhi) ==
    IF alo > ahi \/ blo > bhi THEN 0
    ELSE MatchedAround(a, b, alo, ahi, blo, bhi, find_longest_match(a, b, alo, ahi, blo, bhi))

\* SequenceMatcher(None, a, b).ratio() = 2.0 * matches / (len(a) + len(b)), as the
\* fraction twice / len; 1.0 when both are empty
Ratio(a, b) ==
    IF Len(a) + Len(b) = 0 THEN [twice |-> 1, len |-> 1]
    ELSE [twice |-> 2 * MatchedIn(a, b, 1, Len(a), 1, Len(b)), len |-> Len(a) + Len(b)]

NoRatio == [twice |-> 0, len |-> 1]          \* 0.0

RatioLess(r, q) == r.twice * q.len < q.twice * r.len

\* the ratio of sig to every coverage signature, in the order of cov_sigs_list
Ratios(sig, cov_sig) == [i \in 1..Len(cov_sig) |-> Ratio(sig, cov_sig[i].key)]

\* max(..., key=ratio, default=(None, 0.0)): the first of the largest ratios; 0 for None
BestIndex(ratios) ==
    IF Len(ratios) = 0 THEN 0
    ELSE CHOOSE i \in 1..Len(ratios) :
            \A k \in 1..Len(ratios) :
                /\ k < i => RatioLess(ratios[k], ratios[i])
                /\ k > i => ~RatioLess(ratios[i], ratios[k])

\* best_ratio > 0.95
RatioAbove95(r) == 20 * r.twice > 19 * r.len

\* best_ratio >= 0.95
AcceptRatio(r) == 20 * r.twice >= 19 * r.len

NoMatch(ratios) == [type |-> "none", tests |-> {}, ratio |-> NoRatio, ratios |-> ratios]

\* strategy 3: the best coverage signature, taken when its ratio is accepted
FuzzyPick(cov_sig, ratios, best) ==
    IF best # 0 /\ AcceptRatio(ratios[best])
    THEN [type |-> "fuzzy", tests |-> cov_sig[best].tests, ratio |-> ratios[best],
          ratios |-> ratios]
    ELSE NoMatch(ratios)

FuzzyOf(cov_sig, ratios) == FuzzyPick(cov_sig, ratios, BestIndex(ratios))

FuzzyMatch(sig_norm, cov_sig) == FuzzyOf(cov_sig, Ratios(sig_norm, cov_sig))

ExactMatch(type, d, i) == [type |-> type, tests |-> d[i].tests, ratio |-> NoRatio, ratios |-> <<>>]

\* the tiers the other way round: fuzzy, then signature-only, then direct
FuzzyFirst(full_norm, sig_norm, cov_full, cov_sig) ==
    IF FuzzyMatch(sig_norm, cov_sig).type = "fuzzy" THEN FuzzyMatch(sig_norm, cov_sig)
    ELSE IF KeyIndex(cov_sig, sig_norm) # 0
    THEN ExactMatch("path_removed", cov_sig, KeyIndex(cov_sig, sig_norm))
    ELSE IF KeyIndex(cov_full, full_norm) # 0
    THEN ExactMatch("direct", cov_full, KeyIndex(cov_full, full_norm))
    ELSE NoMatch(<<>>)

\* strategies 1, 2, 3 in the order of the code
TierMatch(full_norm, sig_norm, cov_full, cov_sig) ==
    IF KeyIndex(cov_full, full_norm) # 0
    THEN ExactMatch("direct", cov_full, KeyIndex(cov_full, full_norm))
    ELSE IF KeyIndex(cov_sig, sig_norm) # 0
    THEN ExactMatch("path_removed", cov_sig, KeyIndex(cov_sig, sig_norm))
    ELSE FuzzyMatch(sig_norm, cov_sig)

NotConsulted == [consulted |-> FALSE, type |-> "none", tests |-> {}]

AltResult(mt) == [consulted |-> TRUE, type |-> mt.type, tests |-> mt.tests]

\* the alternative signature is looked up inside the else branch of strategy 2,
\* when strategy 3 left matching_tests empty and func has an alternative
AltMatch(func, mt, alts, cov_full, cov_sig) ==
    IF mt.type \notin {"direct", "path_removed"} /\ mt.tests = {} /\ func \in DOMAIN alts
    THEN AltResult(TierMatch(normalize_to_compare(PathSig(split_path_and_sig(alts[func]))),
                             normalize_to_compare(split_path_and_sig(alts[func]).sig),
                             cov_full, cov_sig))
    ELSE NotConsulted

\* test_function_counts after the tests of one function are counted
CountTests(counts, tests) ==
    [t \in (DOMAIN counts) \cup tests |->
        (IF t \in DOMAIN counts THEN counts[t] ELSE 0) + (IF t \in tests THEN 1 ELSE 0)]

(***************************************************************************)
(* SpecMatch: find_tests_for_functions on a loaded coverage map, a list of *)
(* changed functions and the side table of alternative signatures.  One    *)
(* step per iteration of the loop over the functions.                      *)
(***************************************************************************)
MaxEntries == 2        \* items of the coverage map
MaxFunctions == 2      \* functions passed in

covF12 == <<"a",".","c","p","p",":","c","v","c","5",":",":","S","o","l","v","e","r",":",":","f","(","i","n","t",")",":","1","2">>
covF30 == <<"a",".","c","p","p",":","c","v","c","5",":",":","S","o","l","v","e","r",":",":","f","(","i","n","t",")",":","3","0">>
covBF == <<"b",".","c","p","p",":","c","v","c","5",":",":","S","o","l","v","e","r",":",":","f","(","i","n","t",")",":","5">>
covBG == <<"b",".","c","p","p",":","c","v","c","5",":",":","S","o","l","v","e","r",":",":","g","(","i","n","t",")",":","7">>
covSlvG == <<"b",".","c","p","p",":","c","v","c","5",":",":","S","l","v",":",":","g","(","i","n","t",")",":","7">>
covBFPtr == <<"b",".","c","p","p",":","c","v","c","5",":",":","S","o","l","v","e","r",":",":","f","(","i","n","t","*",")",":","2">>
covBH == <<"b",".","c","p","p",":","c","v","c","5",":",":","S","o","l","v","e","r",":",":","h","(","i","n","t",")",":","8">>
fnF == <<"a",".","c","p","p",":","c","v","c","5",":",":","S","o","l","v","e","r",":",":","f","(","i","n","t",")",":","1","2">>
fnSlvF == <<"a",".","c","p","p",":","c","v","c","5",":",":","S","l","v",":",":","f","(","i","n","t",")",":","3">>
fnCF == <<"c",".","c","p","p",":","c","v","c","5",":",":","S","o","l","v","e","r",":",":","f","(","i","n","t",")",":","1">>
altSlvG == <<"a",".","c","p","p",":","c","v","c","5",":",":","S","l","v",":",":","g","(","i","n","t",")",":","3">>

CoverageKeys == {covF12, covF30, covBF, covBG, covSlvG, covBFPtr, covBH}
TestLists == {<<>>, <<"t1">>, <<"t2">>}
FunctionPool == {fnF, fnSlvF, fnCF}

CoverageItems == [key : CoverageKeys, tests : TestLists]

\* json.load of an object: its keys are distinct and keep the order of the file
CoverageMaps ==
    {m \in UNION {[1..n -> CoverageItems] : n \in 0..MaxEntries} :
        \A i, j \in 1..Len(m) : i # j => m[i].key # m[j].key}

FunctionLists == UNION {[1..n -> FunctionPool] : n \in 0..MaxFunctions}

AltMaps == {EmptyDict, DictPut(EmptyDict, fnSlvF, altSlvG)}

MatchInit ==
    /\ NormIdle /\ DiffIdle /\ CommitLocalsIdle /\ PairIdle /\ SessIdle /\ CliIdle /\ OracleIdle /\ QualIdle /\ FuzzIdle
    /\ alt_signature_map \in AltMaps
    /\ m_pc = "start"
    /\ coverage_map \in CoverageMaps
    /\ functions \in FunctionLists
    /\ cov_full_to_tests = <<>> /\ cov_sig_to_tests = <<>>
    /\ m_i = 0
    /\ all_covering_tests = {}
    /\ functions_with_tests = 0 /\ functions_without_tests = 0
    /\ function_test_counts = EmptyDict /\ test_function_counts = EmptyDict
    /\ direct_matches = 0 /\ path_removed_matches = 0
    /\ match_log = <<>>

\* if not self.coverage_map: the dict of zeros is returned
NotLoaded ==
    /\ m_pc = "start" /\ Len(coverage_map) = 0
    /\ m_pc' = "returned"
    /\ all_covering_tests' = {}
    /\ functions_with_tests' = 0 /\ functions_without_tests' = 0
    /\ function_test_counts' = EmptyDict /\ test_function_counts' = EmptyDict
    /\ direct_matches' = 0 /\ path_removed_matches' = 0
    /\ UNCHANGED <<coverage_map, functions, cov_full_to_tests, cov_sig_to_tests, m_i,
                   match_log, matchOthers>>

\* the two lookup tables are built and the counters start at zero
Precompute ==
    /\ m_pc = "start" /\ Len(coverage_map) # 0
    /\ cov_full_to_tests' = CovFullToTests(coverage_map, Len(coverage_map))
    /\ cov_sig_to_tests' = CovSigToTests(coverage_map, Len(coverage_map))
    /\ all_covering_tests' = {}
    /\ functions_with_tests' = 0 /\ functions_without_tests' = 0
    /\ function_test_counts' = EmptyDict /\ test_function_counts' = EmptyDict
    /\ direct_matches' = 0 /\ path_removed_matches' = 0
    /\ m_i' = 1
    /\ m_pc' = "loop"
    /\ UNCHANGED <<coverage_map, functions, match_log, matchOthers>>

\* the end of one iteration: counters, aggregates and what the iteration held
RecordMatch(func, full_norm, sig_norm, mt, alt) ==
    /\ direct_matches' = direct_matches + (IF mt.type = "direct" THEN 1 ELSE 0)
    /\ path_removed_matches' =
          path_removed_matches + (IF mt.type \in {"path_removed", "fuzzy"} THEN 1 ELSE 0)
    /\ IF mt.tests # {}
       THEN /\ all_covering_tests' = all_covering_tests \cup mt.tests
            /\ functions_with_tests' = functions_with_tests + 1
            /\ function_test_counts' = DictPut(function_test_counts, func, Cardinality(mt.tests))
            /\ test_function_counts' = CountTests(test_function_counts, mt.tests)
            /\ UNCHANGED functions_without_tests
       ELSE /\ functions_without_tests' = functions_without_tests + 1
            /\ function_test_counts' = DictPut(function_test_counts, func, 0)
            /\ UNCHANGED <<all_covering_tests, functions_with_tests, test_function_counts>>
    /\ match_log' = Append(match_log,
          [func |-> func, our_full_norm |-> full_norm, our_sig_norm |-> sig_norm,
           match_type |-> mt.type, matching_tests |-> mt.tests, best_ratio |-> mt.ratio,
           ratios |-> mt.ratios, alt |-> alt])

\* the tests and the tier of an alternative hit put in place of the primary ones
Merged(mt, alt) ==
    IF alt.tests # {} THEN [mt EXCEPT !.type = alt.type, !.tests = alt.tests] ELSE mt

MergeAlt(func, full_norm, sig_norm, mt, alt) ==
    RecordMatch(func, full_norm, sig_norm, Merged(mt, alt), alt)

\* an iteration that counts an alternative hit as a match of the function
MatchMerged(func, full_norm, sig_norm, mt) ==
    MergeAlt(func, full_norm, sig_norm, mt,
             AltMatch(func, mt, alt_signature_map, cov_full_to_tests, cov_sig_to_tests))

MatchWith(func, full_norm, sig_norm, mt) ==
    RecordMatch(func, full_norm, sig_norm, mt,
                AltMatch(func, mt, alt_signature_map, cov_full_to_tests, cov_sig_to_tests))

MatchNorms(func, full_norm, sig_norm) ==
    MatchWith(func, full_norm, sig_norm,
              TierMatch(full_norm, sig_norm, cov_full_to_tests, cov_sig_to_tests))

MatchEntry(func, ours) ==
    MatchNorms(func, normalize_to_compare(PathSig(ours)), normalize_to_compare(ours.sig))

\* one iteration of the loop over the functions
MatchFunction ==
    /\ m_pc = "loop" /\ m_i <= Len(functions)
    /\ MatchEntry(functions[m_i], split_path_and_sig(functions[m_i]))
    /\ m_i' = m_i + 1
    /\ UNCHANGED <<m_pc, coverage_map, functions, cov_full_to_tests, cov_sig_to_tests,
                   matchOthers>>

\* the loop is over: the dict of the aggregates is returned
ReturnResult ==
    /\ m_pc = "loop" /\ m_i > Len(functions)
    /\ m_pc' = "returned"
    /\ UNCHANGED <<coverage_map, functions, cov_full_to_tests, cov_sig_to_tests, m_i,
                   all_covering_tests, functions_with_tests, functions_without_tests,
                   function_test_counts, test_function_counts, direct_matches,
                   path_removed_matches, match_log, matchOthers>>

MatchNext == NotLoaded \/ Precompute \/ MatchFunction \/ ReturnResult

SpecMatch == MatchInit /\ [][MatchNext]_vars

(***************************************************************************)
(* Properties of find_tests_for_functions                                  *)
(***************************************************************************)
FullIndex(e) == KeyIndex(cov_full_to_tests, e.our_full_norm)
SigIndex(e) == KeyIndex(cov_sig_to_tests, e.our_sig_norm)

AtLeast95(r) == 20 * r.twice >= 19 * r.len

\* the tiers of one iteration came in the order direct, path_removed, fuzzy
TiersInOrder(e, fi, si) ==
    /\ fi # 0 => /\ e.match_type = "direct"
                 /\ e.matching_tests = cov_full_to_tests[fi].tests
    /\ (fi = 0 /\ si # 0) => /\ e.match_type = "path_removed"
                             /\ e.matching_tests = cov_sig_to_tests[si].tests
    /\ (e.match_type = "fuzzy" \/ e.ratios # <<>>) => (fi = 0 /\ si = 0)

\* C7: for every function looked at, if its normalized path:signature is a key of
\* the normalized coverage table, its tests are exactly the tests of that key and
\* the match type is direct, whatever the other coverage signatures are; the
\* signature-only table is used only when the direct one has no entry, and ratios
\* are computed only when neither table has an entry.
C7_DirectFirst ==
    \A k \in 1..Len(match_log) :
        TiersInOrder(match_log[k], FullIndex(match_log[k]), SigIndex(match_log[k]))

\* a direct match with tests, beside another coverage signature whose ratio to the
\* function's signature is at least 0.95 and whose tests are different
C7_Witness ==
    \E k \in 1..Len(match_log) :
        /\ match_log[k].match_type = "direct"
        /\ match_log[k].matching_tests # {}
        /\ \E i \in 1..Len(cov_sig_to_tests) :
              /\ cov_sig_to_tests[i].key # match_log[k].our_sig_norm
              /\ cov_sig_to_tests[i].tests # {}
              /\ cov_sig_to_tests[i].tests # match_log[k].matching_tests
              /\ AtLeast95(Ratio(match_log[k].our_sig_norm, cov_sig_to_tests[i].key))

IsBest(rs, b) == \A k \in 1..Len(rs) : ~RatioLess(rs[b], rs[k])

IsFirstBest(rs, b) == IsBest(rs, b) /\ \A k \in 1..(b - 1) : RatioLess(rs[k], rs[b])

\* what the fuzzy tier did with the ratios rs of one function
FuzzyDecision(e, rs) ==
    /\ e.ratios = rs
    /\ e.match_type = "fuzzy" <=> \E b \in 1..Len(rs) : IsBest(rs, b) /\ AtLeast95(rs[b])
    /\ e.match_type = "fuzzy" =>
          \E b \in 1..Len(rs) :
              /\ IsFirstBest(rs, b)
              /\ e.best_ratio = rs[b]
              /\ e.matching_tests = cov_sig_to_tests[b].tests
    /\ e.match_type # "fuzzy" => (e.match_type = "none" /\ e.matching_tests = {})

\* C8: for every function that reaches the fuzzy tier (neither table has an entry
\* for it), the match is fuzzy if and only if the highest ratio between its
\* normalized signature and the coverage signatures is at least 0.95, and the tests
\* are then those of the (first) coverage signature with that highest ratio; below
\* 0.95 there is no match and no tests.
C8_FuzzyThreshold ==
    \A k \in 1..Len(match_log) :
        (FullIndex(match_log[k]) = 0 /\ SigIndex(match_log[k]) = 0) =>
            FuzzyDecision(match_log[k], Ratios(match_log[k].our_sig_norm, cov_sig_to_tests))

\* one function took the tests of its best candidate at exactly 0.95 while a
\* candidate with a lower ratio and other tests was left aside
AcceptedAt95(e) ==
    /\ e.match_type = "fuzzy" /\ e.matching_tests # {}
    /\ 20 * e.best_ratio.twice = 19 * e.best_ratio.len
    /\ \E i \in 1..Len(e.ratios) :
          /\ RatioLess(e.ratios[i], e.best_ratio)
          /\ cov_sig_to_tests[i].tests # {}
          /\ cov_sig_to_tests[i].tests # e.matching_tests

\* one function had its best candidate at 0.94 (16 of 17 characters) and no match
RejectedAt94(e) ==
    /\ e.match_type = "none" /\ e.matching_tests = {}
    /\ \E b \in 1..Len(e.ratios) :
          /\ IsBest(e.ratios, b)
          /\ 100 * e.ratios[b].twice >= 94 * e.ratios[b].len
          /\ ~AtLeast95(e.ratios[b])
          /\ cov_sig_to_tests[b].tests # {}

C8_Witness ==
    /\ \E k \in 1..Len(match_log) : AcceptedAt95(match_log[k])
    /\ \E k \in 1..Len(match_log) : RejectedAt94(match_log[k])

\* func matches under no tier of the coverage map
UnmatchedIn(func, ours, cov_full, cov_sig) ==
    TierMatch(normalize_to_compare(PathSig(ours)), normalize_to_compare(ours.sig),
              cov_full, cov_sig).type = "none"

Unmatched(func) ==
    UnmatchedIn(func, split_path_and_sig(func),
                CovFullToTests(coverage_map, Len(coverage_map)),
                CovSigToTests(coverage_map, Len(coverage_map)))

MissesAreCounted(misses) ==
    /\ \A i \in misses :
          /\ functions[i] \in DOMAIN function_test_counts
          /\ function_test_counts[functions[i]] = 0
    /\ misses # {} => functions_without_tests >= 1

\* C9: when find_tests_for_functions has returned, every function passed in that
\* matches under no tier of the coverage map has the count 0 in
\* function_test_counts and is counted in functions_without_tests.
C9_MissReported ==
    m_pc = "returned" =>
        MissesAreCounted({i \in 1..Len(functions) : Unmatched(functions[i])})

(***************************************************************************)
(* SpecPair: one function spelled in two ways, once as a changed function  *)
(* entry and once as a coverage key, both rendered as                      *)
(* get_function_signature renders them.  The two are normalized and the    *)
(* entry is matched against the map that holds the key alone.              *)
(***************************************************************************)
tT == <<"T">>
tMapKV == <<"s","t","d",":",":","m","a","p","<","K",","," ","V",">">>
tFunction == <<"s","t","d",":",":","f","u","n","c","t","i","o","n","<","v","o","i","d","(","i","n","t",")",">">>
tTPointer == <<"T","*">>
sConstLead == <<"c","o","n","s","t"," ">>
sConstRef == <<" ","c","o","n","s","t","&">>
sRef == <<"&">>
sAllocTail == <<" ",">">>
sAbiTag == <<"[","a","b","i",":","c","x","x","1","1","]">>
sSpConstTail == <<" ","c","o","n","s","t">>
sPairName == <<"c","v","c","5",":",":","f","(">>
sPathA == <<"a",".","c","p","p">>
sPathB == <<"b",".","c","p","p">>
sLine12 == <<":","1","2">>
sLine7 == <<":","7">>

\* 'const T&' and 'T const&'
ConstLeading(T) == sConstLead \o T \o sRef
ConstTrailing(T) == T \o sConstRef

\* 'std::vector<X>' and 'std::vector<X, std::allocator<X> >'
VectorShort(X) == sStdVector \o X \o <<">">>
VectorLong(X) == sStdVector \o X \o <<",", " ">> \o sStdAllocator \o X \o <<">">> \o sAllocTail

ConstTypes == {tT, tInt, tMapKV, tVecInt, tFunction, tTPointer}
ElementTypes == {tInt, tTPointer, tVecInt, tMapKV}
AbiTypes == {tInt, tT, tVecInt}

\* f"{path}:{qualified_name}({param_str}){abi_info}{const_suffix}:{line}"
Entry(path, params, abi, const, line) ==
    path \o <<":">> \o RenderSignature(sPairName, params, <<")">> \o abi \o const \o line)

PlainEntry(path, params, line) == Entry(path, params, <<>>, <<>>, line)

Positions == {"only", "first", "last"}

\* the parameter list that holds p alone, before an int or after an int
ParamsAt(p, pos) ==
    IF pos = "only" THEN <<p>> ELSE IF pos = "first" THEN <<p, tInt>> ELSE <<tInt, p>>

\* the changed function takes one spelling and the coverage key the other
Pair(kind, one, other, path, swap) ==
    [kind |-> kind,
     func |-> IF swap THEN Entry(sPathA, other.params, other.abi, other.const, sLine12)
              ELSE Entry(sPathA, one.params, one.abi, one.const, sLine12),
     key |-> IF swap THEN Entry(path, one.params, one.abi, one.const, sLine7)
             ELSE Entry(path, other.params, other.abi, other.const, sLine7)]

Plain(params) == [params |-> params, abi |-> <<>>, const |-> <<>>]

ConstPairs ==
    {Pair("const", Plain(ParamsAt(ConstLeading(T), pos)), Plain(ParamsAt(ConstTrailing(T), pos)),
          path, swap) :
        T \in ConstTypes, pos \in Positions, path \in {sPathA, sPathB}, swap \in BOOLEAN}

VectorPairs ==
    {Pair("vector", Plain(ParamsAt(VectorShort(X), pos)), Plain(ParamsAt(VectorLong(X), pos)),
          path, swap) :
        X \in ElementTypes, pos \in Positions, path \in {sPathA, sPathB}, swap \in BOOLEAN}

AbiPairs ==
    {Pair("abi", [params |-> <<T>>, abi |-> sAbiTag, const |-> c],
                 [params |-> <<T>>, abi |-> <<>>, const |-> c], path, swap) :
        T \in AbiTypes, c \in {<<>>, sSpConstTail}, path \in {sPathA, sPathB}, swap \in BOOLEAN}

PairPool == ConstPairs \cup VectorPairs \cup AbiPairs

PairInit ==
    /\ NormIdle /\ DiffIdle /\ CommitIdle /\ MatchIdle /\ SessIdle /\ CliIdle /\ OracleIdle /\ QualIdle /\ FuzzIdle
    /\ p_pc = "start"
    /\ \E pr \in PairPool : p_kind = pr.kind /\ p_func = pr.func /\ p_key = pr.key
    /\ p_func_nfs = NoStr /\ p_key_nfs = NoStr /\ p_func_norm = NoStr /\ p_key_norm = NoStr
    /\ p_match = [type |-> "none", tests |-> {}]

\* both signatures go through normalize_function_signature and normalize_to_compare
NormalizePair ==
    /\ p_pc = "start"
    /\ p_func_nfs' = normalize_function_signature(strip_line_suffix(split_path_and_sig(p_func).sig))
    /\ p_key_nfs' = normalize_function_signature(strip_line_suffix(split_path_and_sig(p_key).sig))
    /\ p_func_norm' = normalize_to_compare(split_path_and_sig(p_func).sig)
    /\ p_key_norm' = normalize_to_compare(split_path_and_sig(p_key).sig)
    /\ p_pc' = "normalized"
    /\ UNCHANGED <<p_kind, p_func, p_key, p_match, pairOthers>>

TypeAndTests(mt) == [type |-> mt.type, tests |-> mt.tests]

\* what the tiers give for one function and the two lookup tables
MatchAgainstTables(ours, cov_full, cov_sig) ==
    TypeAndTests(TierMatch(normalize_to_compare(PathSig(ours)), normalize_to_compare(ours.sig),
                           cov_full, cov_sig))

MatchAgainst(ours, map) == MatchAgainstTables(ours, CovFullToTests(map, 1), CovSigToTests(map, 1))

\* find_tests_for_functions([p_func]) with the coverage map {p_key: ["t1"]}
MatchPair ==
    /\ p_pc = "normalized"
    /\ p_match' = MatchAgainst(split_path_and_sig(p_func), <<[key |-> p_key, tests |-> <<"t1">>]>>)
    /\ p_pc' = "matched"
    /\ UNCHANGED <<p_kind, p_func, p_key, p_func_nfs, p_key_nfs, p_func_norm, p_key_norm,
                   pairOthers>>

PairNext == NormalizePair \/ MatchPair

SpecPair == PairInit /\ [][PairNext]_vars

\* the two spellings have byte-equal normalized forms and the entry is matched by
\* an exact tier
SameFunction ==
    /\ p_func_nfs = p_key_nfs
    /\ p_func_norm = p_key_norm
    /\ p_match.type \in {"direct", "path_removed"}
    /\ p_match.tests = {"t1"}

\* C11: when a changed function and a coverage key differ only in spelling one
\* parameter 'const T&' against 'T const&', at any position and for any T of the
\* pool (templates, a type with a comma, a type with parentheses), their
\* normalized forms are byte-equal and the function matches the key in the direct
\* or the path_removed tier.
C11_ConstPlacement == (p_pc = "matched" /\ p_kind = "const") => SameFunction

\* C12: when a changed function and a coverage key differ only in spelling one
\* parameter std::vector<X> against std::vector<X, std::allocator<X> >, whichever
\* side has which and for any X of the pool (a std::vector among them), their
\* forms under normalize_to_compare are byte-equal.
C12_VectorExpansion == (p_pc = "matched" /\ p_kind = "vector") => p_func_norm = p_key_norm

\* C13: when a changed function and a coverage key differ only in the ABI tag
\* '[abi:cxx11]' after the parameter list, their normalized forms are byte-equal
\* and the function matches the key in the direct or the path_removed tier.
C13_AbiTag ==
    (p_pc = "matched" /\ p_kind = "abi") =>
        /\ p_func_norm = p_key_norm
        /\ p_match.type \in {"direct", "path_removed"}

(***************************************************************************)
(* The defining-line suffix in find_tests_for_functions                    *)
(***************************************************************************)
sOtherLine == <<":", "9">>
LineDigits == <<"1", "2", "3", "4", "5", "6", "7", "8", "9">>

\* the entry with its trailing line number replaced by 9 followed by the i-th digit;
\* an entry without a line suffix stays
RelineAt(s, c, i) ==
    IF c # 0 /\ IsDigitStr(SubSeq(s, c + 1, Len(s)))
    THEN SubSeq(s, 1, c - 1) \o sOtherLine \o <<LineDigits[i]>>
    ELSE s

Reline(s, i) == RelineAt(s, LastIn(s, {":"}, Len(s)), i)

\* the coverage map with every key given another line number, the keys still distinct
RelinedMap(map) == [i \in 1..Len(map) |-> [key |-> Reline(map[i].key, i), tests |-> map[i].tests]]

\* the lookup tables are those of the map with other line numbers
TablesIgnoreLines(map) ==
    /\ cov_full_to_tests = CovFullToTests(map, Len(map))
    /\ cov_sig_to_tests = CovSigToTests(map, Len(map))

\* a map without line suffixes at all: the part of a key before its last ':'
Unlined(s) == SubSeq(s, 1, LastIn(s, {":"}, Len(s)) - 1)

\* keys that differ only in their line suffix share one entry of the full table,
\* which holds the tests of both
MergedAt(i, j, fi) ==
    /\ fi # 0
    /\ Range(coverage_map[i].tests) \cup Range(coverage_map[j].tests) \subseteq cov_full_to_tests[fi].tests
    /\ \A k \in 1..Len(cov_full_to_tests) : cov_full_to_tests[k].key = cov_full_to_tests[fi].key => k = fi

KeysMerged ==
    \A i, j \in 1..Len(coverage_map) :
        (i # j /\ Unlined(coverage_map[i].key) = Unlined(coverage_map[j].key)) =>
            MergedAt(i, j, KeyIndex(cov_full_to_tests, normalize_to_compare(Unlined(coverage_map[i].key))))

\* the entry e of the log is what the function with another line number gets from
\* the lookup tables
EntryIgnoresLine(e, ours) ==
    MatchAgainstTables(ours, cov_full_to_tests, cov_sig_to_tests)
        = [type |-> e.match_type, tests |-> e.matching_tests]

\* C14: the tables built from the coverage map are the tables of the same map with
\* every key's line number replaced by another, keys that differ only in the line
\* suffix are merged into one entry, and each function gets from these tables the
\* tier and the tests that the same function with another line number gets.
C14_LineSuffixIgnored ==
    /\ (m_pc = "loop" /\ m_i = 1) => (TablesIgnoreLines(RelinedMap(coverage_map)) /\ KeysMerged)
    /\ (m_pc = "loop" /\ m_i > 1) =>
          EntryIgnoresLine(match_log[m_i - 1],
                           split_path_and_sig(Reline(match_log[m_i - 1].func, 1)))

\* two keys that differ only in the line suffix, with different tests, and a
\* function (with yet another use of the line) matched directly with both tests
C14_Witness ==
    /\ m_pc = "loop" /\ m_i > 1
    /\ \E i, j \in 1..Len(coverage_map) :
          /\ i # j
          /\ coverage_map[i].key # coverage_map[j].key
          /\ Unlined(coverage_map[i].key) = Unlined(coverage_map[j].key)
          /\ coverage_map[i].tests # <<>> /\ coverage_map[j].tests # <<>>
          /\ coverage_map[i].tests # coverage_map[j].tests
          /\ match_log[m_i - 1].match_type = "direct"
          /\ match_log[m_i - 1].matching_tests =
                Range(coverage_map[i].tests) \cup Range(coverage_map[j].tests)

(***************************************************************************)
(* The alternative signature in find_tests_for_functions                   *)
(***************************************************************************)
\* the alternative is looked at only when no tier gave tests for the primary
\* signature: neither table has an entry and strategy 3 left no tests
AltOnlyAfterTiers(e) ==
    e.alt.consulted =>
        /\ e.matching_tests = {}
        /\ FullIndex(e) = 0 /\ SigIndex(e) = 0
        /\ e.func \in DOMAIN alt_signature_map

\* the alternative goes through strategies 1, 2, 3 as the primary does
AltThroughTiers(e) ==
    e.alt.consulted =>
        MatchAgainstTables(split_path_and_sig(alt_signature_map[e.func]),
                           cov_full_to_tests, cov_sig_to_tests)
            = [type |-> e.alt.type, tests |-> e.alt.tests]

LogIndexes == 1..Len(match_log)

\* the aggregates are those of the primary matches of the iterations done
PrimaryOnly ==
    /\ all_covering_tests = UNION {match_log[k].matching_tests : k \in LogIndexes}
    /\ functions_with_tests = Cardinality({k \in LogIndexes : match_log[k].matching_tests # {}})
    /\ functions_without_tests = Cardinality({k \in LogIndexes : match_log[k].matching_tests = {}})
    /\ direct_matches = Cardinality({k \in LogIndexes : match_log[k].match_type = "direct"})
    /\ path_removed_matches =
          Cardinality({k \in LogIndexes : match_log[k].match_type \in {"path_removed", "fuzzy"}})
    /\ \A k \in LogIndexes :
          match_log[k].alt.consulted => function_test_counts[match_log[k].func] = 0

\* C15: the alternative signature of a function is consulted only when the direct,
\* path_removed and fuzzy tiers found no tests for its primary signature; it then
\* goes through the same three tiers in the same order; and its result stays out
\* of the results: the matched tests of the function, functions_with_tests and the
\* direct and path_removed counters are those of the primary matches alone.
C15_AltStaysAside ==
    /\ \A k \in LogIndexes : AltOnlyAfterTiers(match_log[k]) /\ AltThroughTiers(match_log[k])
    /\ m_pc \in {"loop", "returned"} /\ Len(coverage_map) # 0 => PrimaryOnly

\* the alternative signature of a function found tests while the function itself
\* is reported without tests
C15_Witness ==
    /\ m_pc = "returned"
    /\ \E k \in LogIndexes :
          /\ match_log[k].alt.consulted
          /\ match_log[k].alt.tests # {}
          /\ match_log[k].alt.type = "path_removed"
          /\ match_log[k].matching_tests = {}
          /\ function_test_counts[match_log[k].func] = 0
          /\ functions_with_tests = 0 /\ path_removed_matches = 0

(***************************************************************************)
(* The aggregates returned by find_tests_for_functions                     *)
(***************************************************************************)
\* 'total_tests': len(all_covering_tests)
total_tests == Cardinality(all_covering_tests)

\* sum of the values of a dict
RECURSIVE SumOfKeys(_, _)
SumOfKeys(d, keys) ==
    IF keys = {} THEN 0
    ELSE d[CHOOSE k \in keys : TRUE]
         + SumOfKeys(d, keys \ {CHOOSE k \in keys : TRUE})

SumOf(d) == SumOfKeys(d, DOMAIN d)

\* the matched set of the i-th function passed in: what its iteration found, and
\* nothing when no iteration ran for it
MatchedSet(i) == IF i <= Len(match_log) THEN match_log[i].matching_tests ELSE {}

FunctionIndexes == 1..Len(functions)

AggregatesConsistent ==
    /\ all_covering_tests = UNION {MatchedSet(i) : i \in FunctionIndexes}
    /\ total_tests = Cardinality(UNION {MatchedSet(i) : i \in FunctionIndexes})
    /\ \A i \in FunctionIndexes :
          /\ functions[i] \in DOMAIN function_test_counts
          /\ function_test_counts[functions[i]] = Cardinality(MatchedSet(i))
    /\ DOMAIN test_function_counts = all_covering_tests
    /\ \A t \in DOMAIN test_function_counts :
          test_function_counts[t] = Cardinality({i \in FunctionIndexes : t \in MatchedSet(i)})
    /\ SumOf(test_function_counts) = SumOf(function_test_counts)

\* C16: when find_tests_for_functions has returned, all_covering_tests is the union
\* of the matched sets of the functions passed in and total_tests its size,
\* function_test_counts[f] is the size of the matched set of f,
\* test_function_counts[t] is the number of functions passed in whose matched set
\* holds t, and the two dicts of counts have the same sum.
C16_AggregatesConsistent == m_pc = "returned" => AggregatesConsistent

\* the iterations whose match_type is the given tier
ResolvedBy(tier) == {k \in LogIndexes : match_log[k].match_type = tier}

TierCountsExact ==
    /\ direct_matches = Cardinality(ResolvedBy("direct"))
    /\ path_removed_matches = Cardinality(ResolvedBy("path_removed"))
    /\ direct_matches + path_removed_matches + Cardinality(ResolvedBy("fuzzy"))
          = functions_with_tests

\* C17: when find_tests_for_functions has returned, direct_matches is the number of
\* functions resolved by the direct tier, path_removed_matches the number resolved
\* by the signature-only tier (fuzzy resolutions are counted in neither), and the
\* counts of the three tiers add up to functions_with_tests.
C17_TierCounts == m_pc = "returned" => TierCountsExact

\* the functions passed in whose matched set is not empty
WithMatches == {i \in FunctionIndexes : MatchedSet(i) # {}}

PartitionExact ==
    /\ functions_with_tests + functions_without_tests = Len(functions)
    /\ DOMAIN function_test_counts = {functions[i] : i \in FunctionIndexes}
    /\ functions_with_tests = Cardinality(WithMatches)
    /\ functions_without_tests = Cardinality(FunctionIndexes \ WithMatches)

\* C27: when find_tests_for_functions has returned, for every function list and
\* every loaded coverage map, a map with no entries included,
\* functions_with_tests + functions_without_tests is the number of functions
\* passed in, function_test_counts has exactly one entry per function, and a
\* function counts as with tests exactly when its matched set is not empty.
C27_Partition == m_pc = "returned" => PartitionExact

(***************************************************************************)
(* SpecSession: analyze_commit_coverage called on one analyzer for one     *)
(* commit after the other.  A call runs get_commit_functions, then         *)
(* load_coverage_mapping, find_tests_for_functions and                     *)
(* cleanup_coverage_mapping, and returns its report; an exception that     *)
(* load_coverage_mapping raises ends the call.  The file at                *)
(* coverage_json_path is missing, is no JSON text, holds a JSON array or   *)
(* holds a JSON object.                                                    *)
(***************************************************************************)
MaxCalls == 2

covSessF == <<"a",".","c","p","p",":","c","v","c","5",":",":","f","(",")",":","9">>
covSessG == <<"c",".","c","p","p",":","c","v","c","5",":",":","g","(",")",":","2">>

\* a statement added to f of a.cpp, with a change to a text file
EditF == <<FileChange(sACpp, Revision(tSeq), Revision(ApplyEdit(tSeq, 2, 0, <<sZ>>)), TRUE, TRUE),
           DocChange>>
\* a statement added to g of b.cpp
EditG == <<FileChange(sBCpp, Revision(tSeq), Revision(ApplyEdit(tSeq, 5, 0, <<sZ>>)), TRUE, TRUE)>>
\* the same change to a.cpp, which the front-end fails to parse
EditUnparsed ==
    <<FileChange(sACpp, Revision(tSeq), Revision(ApplyEdit(tSeq, 2, 0, <<sZ>>)), TRUE, FALSE)>>

SessionCommits == {EditF, EditG, EditUnparsed}

\* get_commit_info finds no such commit; repo.commit or the call of git raises in
\* get_commit_diff; git show ends in an error and writes no diff
VcsFailures == {"no_commit", "diff_raises", "diff_fails"}

\* the commits analyzed and what the repository answers for them
SessionCalls ==
    {[commit |-> c, vcs |-> "ok"] : c \in SessionCommits}
    \cup {[commit |-> EditF, vcs |-> v] : v \in VcsFailures}

SessionMaps ==
    {<<>>,
     <<[key |-> covSessF, tests |-> <<"t1">>]>>,
     <<[key |-> covSessG, tests |-> <<"t2", "t1">>], [key |-> covSessF, tests |-> <<"t1">>]>>}

CoverageFiles ==
    {[kind |-> k, items |-> <<>>] : k \in {"missing", "invalid", "array"}}
    \cup {[kind |-> "object", items |-> m] : m \in SessionMaps}

Raised == [outcome |-> "raised"]

\* sorted(list(covering_tests))
TestOrder == <<"t1", "t2">>
SortedTests(tests) == SelectSeq(TestOrder, LAMBDA t : t \in tests)

\* functions_with_tests / len(changed_functions) * 100, as the fraction num / den
Percentage(with, total) == [num |-> with * 100, den |-> total]

\* lines 1290-1300: the report of a commit without changed functions
EmptyReport(commit) ==
    [outcome |-> "returned", commit |-> commit, changed_functions |-> <<>>,
     covering_tests |-> <<>>,
     summary |-> [total_functions |-> 0, functions_with_tests |-> 0,
                  total_covering_tests |-> 0, coverage_percentage |-> 0]]

\* lines 1310-1360: the report made of the list and of test_results
Report(commit, fs, with, without, covering) ==
    [outcome |-> "returned", commit |-> commit, changed_functions |-> fs,
     covering_tests |-> SortedTests(covering),
     summary |-> [total_functions |-> Len(fs), functions_with_tests |-> with,
                  functions_without_tests |-> without,
                  total_covering_tests |-> Cardinality(covering),
                  coverage_percentage |-> Percentage(with, Len(fs))]]

SessionInit ==
    /\ NormIdle /\ DiffIdle /\ CommitIdle /\ MatchIdle /\ PairIdle /\ CliIdle /\ OracleIdle /\ QualIdle /\ FuzzIdle
    /\ s_pc = "idle" /\ s_calls = 0 /\ s_file = NoFile /\ s_map_type = "NoneType"
    /\ s_loads = 0 /\ s_loaded = <<>> /\ s_report = NoReport /\ s_vcs = "ok"

\* analyze_commit_coverage(commit_hash, coverage_json_path) is called: the
\* locals of get_commit_functions are new, the fields of the analyzer are kept
StartCall(call, file) ==
    /\ c_commit' = call.commit
    /\ s_vcs' = call.vcs
    /\ s_file' = file
    /\ c_pc' = "start"
    /\ changed_files_lines' = EmptyDict /\ c_order' = <<>> /\ c_fi' = 0
    /\ after_funcs' = <<>> /\ before_funcs' = <<>> /\ c_lines' = <<>> /\ c_li' = 0
    /\ selected' = <<>> /\ c_ei' = 0 /\ changed_functions' = <<>>
    /\ c_picks' = <<>> /\ c_emits' = <<>>
    /\ s_pc' = "functions" /\ s_loads' = 0 /\ s_loaded' = <<>> /\ s_report' = NoReport
    /\ UNCHANGED <<alt_signature_map, s_calls, s_map_type, matchVars>>

BeginCall ==
    /\ s_pc = "idle" /\ s_calls < MaxCalls
    /\ \E call \in SessionCalls, file \in CoverageFiles : StartCall(call, file)
    /\ UNCHANGED callOthers

EndCall(report) ==
    /\ s_report' = report
    /\ s_pc' = "idle"
    /\ s_calls' = s_calls + 1

\* lines 532-534: get_commit_info returns None and get_commit_functions returns []
CommitNotFound ==
    /\ c_pc = "start" /\ s_vcs = "no_commit"
    /\ c_pc' = "returned"
    /\ UNCHANGED <<c_commit, changed_files_lines, c_order, c_fi, after_funcs, before_funcs,
                   c_lines, c_li, selected, c_ei, changed_functions, alt_signature_map,
                   c_picks, c_emits, commitOthers>>

FunctionsKnown == s_pc = "functions" /\ c_pc = "returned"

\* lines 1288-1300: no changed function, the call returns before the map is loaded
NoFunctions ==
    /\ FunctionsKnown /\ Len(changed_functions) = 0
    /\ EndCall(EmptyReport(c_commit))
    /\ UNCHANGED <<s_file, s_vcs, s_map_type, s_loads, s_loaded, commitVars, matchVars,
                   callOthers>>

\* line 712: open raises for a missing file, json.load for a text that is no JSON;
\* self.coverage_map is not assigned and the exception ends the call
LoadRaises ==
    /\ FunctionsKnown /\ Len(changed_functions) > 0
    /\ s_file.kind \in {"missing", "invalid"}
    /\ EndCall(Raised)
    /\ UNCHANGED <<s_file, s_vcs, s_map_type, s_loads, s_loaded, commitVars, matchVars,
                   callOthers>>

\* lines 712-717: a JSON array is assigned to self.coverage_map, and its missing
\* keys() raises AttributeError, which ends the call
LoadArray ==
    /\ FunctionsKnown /\ Len(changed_functions) > 0
    /\ s_file.kind = "array"
    /\ coverage_map' = s_file.items
    /\ s_map_type' = "list"
    /\ s_loads' = s_loads + 1
    /\ s_loaded' = s_file.items
    /\ EndCall(Raised)
    /\ UNCHANGED <<s_file, s_vcs, commitVars, m_pc, functions, cov_full_to_tests,
                   cov_sig_to_tests, m_i, all_covering_tests, functions_with_tests, functions_without_tests,
                   function_test_counts, test_function_counts, direct_matches,
                   path_removed_matches, match_log, callOthers>>

\* lines 1303-1304: the JSON object is loaded and find_tests_for_functions is
\* called on the changed functions
LoadObject ==
    /\ FunctionsKnown /\ Len(changed_functions) > 0
    /\ s_file.kind = "object"
    /\ coverage_map' = s_file.items
    /\ s_map_type' = "dict"
    /\ s_loads' = s_loads + 1
    /\ s_loaded' = s_file.items
    /\ s_pc' = "matching"
    /\ m_pc' = "start"
    /\ functions' = changed_functions
    /\ cov_full_to_tests' = <<>> /\ cov_sig_to_tests' = <<>> /\ m_i' = 0
    /\ all_covering_tests' = {}
    /\ functions_with_tests' = 0 /\ functions_without_tests' = 0
    /\ function_test_counts' = EmptyDict /\ test_function_counts' = EmptyDict
    /\ direct_matches' = 0 /\ path_removed_matches' = 0
    /\ match_log' = <<>>
    /\ UNCHANGED <<s_calls, s_file, s_vcs, s_report, commitVars, callOthers>>

\* line 1307: cleanup_coverage_mapping
Cleanup ==
    /\ s_pc = "matching" /\ m_pc = "returned"
    /\ coverage_map' = <<>>
    /\ s_map_type' = "NoneType"
    /\ s_pc' = "released"
    /\ UNCHANGED <<s_calls, s_file, s_vcs, s_loads, s_loaded, s_report, commitVars, m_pc,
                   functions, cov_full_to_tests, cov_sig_to_tests, m_i, all_covering_tests,
                   functions_with_tests, functions_without_tests, function_test_counts,
                   test_function_counts, direct_matches, path_removed_matches, match_log,
                   callOthers>>

\* lines 1310-1360: the summary and the report
ReturnReport ==
    /\ s_pc = "released"
    /\ EndCall(Report(c_commit, changed_functions, functions_with_tests,
                      functions_without_tests, all_covering_tests))
    /\ UNCHANGED <<s_file, s_vcs, s_map_type, s_loads, s_loaded, commitVars, matchVars,
                   callOthers>>

SessionNext ==
    \/ BeginCall
    \/ CommitNotFound \/ AnalyzeCommit \/ SkipFile \/ ParseFile \/ SelectLine \/ BeginEmit \/ EmitFunction
    \/ EndFile \/ ReturnFunctions
    \/ NoFunctions \/ LoadRaises \/ LoadArray \/ LoadObject
    \/ NotLoaded \/ Precompute \/ MatchFunction \/ ReturnResult
    \/ Cleanup \/ ReturnReport

SpecSession == SessionInit /\ [][SessionNext]_vars

(***************************************************************************)
(* Properties of analyze_commit_coverage over a sequence of calls          *)
(***************************************************************************)
\* within a call, self.coverage_map is assigned from the file at most once
LoadedOnce == s_loads <= 1

\* a call that has loaded the map has its changed functions computed
LoadAfterFunctions == s_loads > 0 => c_pc = "returned"

\* while find_tests_for_functions runs, the map is the object that was loaded
MapReadOnly == s_pc = "matching" => (s_map_type = "dict" /\ coverage_map = s_loaded)

\* between two calls self.coverage_map is None
ReleasedAtEnd == s_pc = "idle" => s_map_type = "NoneType"

\* C18: over any sequence of analyze_commit_coverage calls on one analyzer, a
\* call loads the map at most once and only after the changed functions of the
\* commit are computed, matching leaves the loaded map as it is, and when the
\* call has ended self.coverage_map is None, so that no map is resident between
\* two commits.
C18_MapLifecycle == LoadedOnce /\ LoadAfterFunctions /\ MapReadOnly /\ ReleasedAtEnd

\* the tests that find_tests_for_functions matches to func on a loaded map
TestsOf(map, func) ==
    TierMatch(normalize_to_compare(PathSig(split_path_and_sig(func))),
              normalize_to_compare(split_path_and_sig(func).sig),
              CovFullToTests(map, Len(map)), CovSigToTests(map, Len(map))).tests

WithTests(map, fs) == {i \in 1..Len(fs) : Len(map) # 0 /\ TestsOf(map, fs[i]) # {}}

\* the report of a call on a new analyzer: the map is loaded for a commit with
\* changed functions only, and an empty map gives the dict of zeros
ReportOn(commit, file, fs) ==
    IF Len(fs) = 0 THEN EmptyReport(commit)
    ELSE IF file.kind # "object" THEN Raised
    ELSE Report(commit, fs, Cardinality(WithTests(file.items, fs)),
                IF Len(file.items) = 0 THEN 0
                ELSE Len(fs) - Cardinality(WithTests(file.items, fs)),
                UNION {TestsOf(file.items, fs[i]) : i \in WithTests(file.items, fs)})

\* the list that get_commit_functions returns, given what the repository answers
FunctionsOn(vcs, commit) == IF vcs = "ok" THEN get_commit_functions(commit) ELSE <<>>

FreshReport(vcs, commit, file) == ReportOn(commit, file, FunctionsOn(vcs, commit))

\* what a new analyzer holds and reports after its first call, on c_commit
AsIfAlone ==
    /\ s_report = FreshReport(s_vcs, c_commit, s_file)
    /\ changed_files_lines = get_changed_lines(diff_text(s_vcs, c_commit))
    /\ changed_functions = FunctionsOn(s_vcs, c_commit)
    /\ alt_signature_map = IF s_vcs = "ok" THEN AltsWith(EmptyDict, c_commit) ELSE EmptyDict

\* C19: when a call of analyze_commit_coverage has ended, the report and the
\* state of the analyzer (the changed lines, the functions selected, and the
\* table of alternative signatures) are those of a new analyzer that analyzed
\* this commit alone, whatever commit the analyzer analyzed before.
C19_CommitScoped == (s_pc = "idle" /\ s_calls > 0) => AsIfAlone

(***************************************************************************)
(* Errors of the repository in analyze_commit_coverage                     *)
(***************************************************************************)
VcsFailed == s_vcs \in VcsFailures

\* the report of a commit without analyzable functions
ZeroReport ==
    /\ s_report.outcome = "returned"
    /\ s_report.changed_functions = <<>>
    /\ s_report.covering_tests = <<>>
    /\ s_report.summary.total_functions = 0
    /\ s_report.summary.total_covering_tests = 0
    /\ s_report.summary.coverage_percentage = 0

\* C21: when the commit is not found or its diff cannot be retrieved,
\* get_commit_functions returns the empty list and does not raise, and
\* analyze_commit_coverage returns a report with no changed function, no covering
\* test and coverage_percentage 0, and has not loaded the coverage map.
C21_VcsErrorsDegrade ==
    /\ (VcsFailed /\ s_pc = "functions" /\ c_pc = "returned") => changed_functions = <<>>
    /\ VcsFailed => s_pc \in {"idle", "functions"}
    /\ (VcsFailed /\ s_pc = "idle" /\ s_calls > 0) =>
          (ZeroReport /\ s_loads = 0 /\ s_loaded = <<>>)

\* the diff of a commit that changes f could not be retrieved, and the call that
\* follows a call with a loaded map returned the report of zeros
C21_Witness ==
    /\ s_vcs = "diff_raises" /\ s_pc = "idle" /\ s_calls = 2
    /\ c_commit = EditF
    /\ ZeroReport /\ s_loads = 0 /\ s_map_type = "NoneType"

(***************************************************************************)
(* SpecCli: main, one process for one commit.  The path given exists or    *)
(* not; an exception that analyze_commit_coverage raises is not caught and *)
(* ends the process with exit code 1.                                      *)
(***************************************************************************)
CliInit ==
    /\ NormIdle /\ DiffIdle /\ CommitIdle /\ MatchIdle /\ PairIdle /\ SessIdle /\ OracleIdle /\ QualIdle /\ FuzzIdle
    /\ x_pc = "start"
    /\ x_args \in [call : SessionCalls, file : CoverageFiles]
    /\ x_exit = NoneInt

Exit(code) == x_exit' = code /\ x_pc' = "exited"

\* lines 1369-1372: os.path.exists is false, sys.exit(1)
PathMissing ==
    /\ x_pc = "start" /\ x_args.file.kind = "missing"
    /\ Exit(1)
    /\ UNCHANGED <<x_args, sessVars, commitVars, matchVars, mainOthers>>

\* lines 1374-1378: a new analyzer, and analyze_commit_coverage is called
MainAnalyze ==
    /\ x_pc = "start" /\ x_args.file.kind # "missing"
    /\ StartCall(x_args.call, x_args.file)
    /\ x_pc' = "analyzing"
    /\ UNCHANGED <<x_args, x_exit, mainOthers>>

\* lines 1380 and 1383: return 0, sys.exit(main())
MainReturns ==
    /\ x_pc = "analyzing" /\ s_pc = "idle" /\ s_report.outcome = "returned"
    /\ Exit(0)
    /\ UNCHANGED <<x_args, sessVars, commitVars, matchVars, mainOthers>>

\* the exception leaves main: the interpreter prints it and exits with code 1
MainUncaught ==
    /\ x_pc = "analyzing" /\ s_pc = "idle" /\ s_report.outcome = "raised"
    /\ Exit(1)
    /\ UNCHANGED <<x_args, sessVars, commitVars, matchVars, mainOthers>>

CliNext ==
    \/ PathMissing \/ MainAnalyze
    \/ CommitNotFound \/ AnalyzeCommit \/ SkipFile \/ ParseFile \/ SelectLine \/ BeginEmit
    \/ EmitFunction \/ EndFile \/ ReturnFunctions
    \/ NoFunctions \/ LoadRaises \/ LoadArray \/ LoadObject
    \/ NotLoaded \/ Precompute \/ MatchFunction \/ ReturnResult
    \/ Cleanup \/ ReturnReport
    \/ MainReturns \/ MainUncaught

SpecCli == CliInit /\ [][CliNext]_vars

\* the file at the path is missing, is no JSON text, or is no JSON object
FileUnusable == x_args.file.kind \in {"missing", "invalid", "array"}

\* C22: the process exits with code 1 before any commit analysis when the path of
\* the coverage JSON does not exist; for every commit, a missing or malformed
\* coverage file ends the process in a failure before any function is matched;
\* and every run that completes, a commit without changed functions included,
\* exits with code 0.
C22_CoverageFileFatal ==
    x_pc = "exited" =>
        /\ x_args.file.kind = "missing" => (x_exit = 1 /\ c_pc = "idle")
        /\ FileUnusable => (x_exit = 1 /\ match_log = <<>>)
        /\ s_report.outcome = "returned" => x_exit = 0

(***************************************************************************)
(* oracle.py: extract_result.  A text is the list of its lines, as         *)
(* split('\n') gives them, and a line the list of its words, the runs of   *)
(* characters between whitespace.                                          *)
(***************************************************************************)
\* str.lower on the words of the pool
Lower(word) == IF word = "SAT" THEN "sat" ELSE IF word = "Unsupported" THEN "unsupported" ELSE word

LowerText(text) == [i \in 1..Len(text) |-> [k \in 1..Len(text[i]) |-> Lower(text[i][k])]]

\* (output + "\n" + stderr).lower()
Combined(output, stderr) == LowerText(output \o stderr)

\* the lines whose strip() is one of the three answers
AnswerLines(combined) ==
    {i \in 1..Len(combined) :
        Len(combined[i]) = 1 /\ combined[i][1] \in {"unsat", "sat", "unknown"}}

\* (^|\s)word(\s|$)
HasWord(combined, word) ==
    \E i \in 1..Len(combined) : \E k \in 1..Len(combined[i]) : combined[i][k] = word

\* \(error\s+ : the word is followed by whitespace, so it does not end the text
HasError(combined) ==
    \E i \in 1..Len(combined) : \E k \in 1..Len(combined[i]) :
        /\ combined[i][k] = "(error"
        /\ k < Len(combined[i]) \/ i < Len(combined)

\* output.strip() is not empty and has no line that is the word unsupported
Meaningful(output) ==
    /\ \E i \in 1..Len(output) : Len(output[i]) > 0
    /\ ~\E i \in 1..Len(output) : Len(output[i]) = 1 /\ Lower(output[i][1]) = "unsupported"

AfterAnswers(combined, output, exit_code) ==
    IF HasWord(combined, "unsat") THEN "unsat"
    ELSE IF HasWord(combined, "sat") THEN "sat"
    ELSE IF HasWord(combined, "unknown") THEN "unknown"
    ELSE IF HasError(combined) THEN "error"
    ELSE IF exit_code = 124 THEN "timeout"
    ELSE IF exit_code = 0 /\ Meaningful(output) THEN "query"
    ELSE "error"

FirstAnswer(combined, lines) == combined[CHOOSE i \in lines : \A j \in lines : i <= j][1]

ResultOf(combined, output, exit_code) ==
    IF AnswerLines(combined) # {} THEN FirstAnswer(combined, AnswerLines(combined))
    ELSE AfterAnswers(combined, output, exit_code)

extract_result(output, stderr, exit_code) == ResultOf(Combined(output, stderr), output, exit_code)

(***************************************************************************)
(* SpecOracle: main of oracle.py on a test file and two solvers.  A solver *)
(* run ends with an exit code and two texts, or subprocess.run raises      *)
(* TimeoutExpired, FileNotFoundError or another exception.                 *)
(***************************************************************************)
NoText == << <<>> >>
Outputs ==
    {NoText,
     << <<"sat">>, <<>> >>, << <<"unsat">>, <<>> >>, << <<"unknown">>, <<>> >>,
     << <<"SAT">>, <<>> >>,
     << <<"result:", "sat">>, <<>> >>,
     << <<"sat">>, <<"unsat">>, <<>> >>,
     << <<"((x", "1))">>, <<>> >>,
     << <<"Unsupported">>, <<>> >>,
     << <<"(error", "\"parse", "error\")">>, <<>> >>}
Stderrs == {NoText, << <<"(error", "\"x\")">>, <<>> >>, << <<"warning:", "unknown", "option">>, <<>> >>}
ExitCodes == {0, 1, 124}

\* subprocess.run returned
Completed(code, out, err) == [exit |-> code, result |-> extract_result(out, err, code)]

\* what run_solver returns
RunOutcomes ==
    {Completed(code, out, err) : code \in ExitCodes, out \in Outputs, err \in Stderrs}
    \cup {[exit |-> 124, result |-> "timeout"], [exit |-> 127, result |-> "error"],
          [exit |-> 1, result |-> "error"]}

OracleInit ==
    /\ NormIdle /\ DiffIdle /\ CommitIdle /\ MatchIdle /\ PairIdle /\ SessIdle /\ CliIdle /\ QualIdle /\ FuzzIdle
    /\ o_pc = "start"
    /\ o_test \in [exists : BOOLEAN, unsupported : BOOLEAN]
    /\ o_test.unsupported => o_test.exists
    /\ o_cvc5 = NotRun /\ o_solver = NotRun /\ o_exit = NoneInt

OracleExit(code) == o_exit' = code /\ o_pc' = "exited"

\* lines 203-207: the test file does not exist
TestMissing ==
    /\ o_pc = "start" /\ ~o_test.exists
    /\ OracleExit(1)
    /\ UNCHANGED <<o_test, o_cvc5, o_solver, oracleOthers>>

\* lines 210-213: check_has_unsupported_commands
TestUnsupported ==
    /\ o_pc = "start" /\ o_test.exists /\ o_test.unsupported
    /\ OracleExit(1)
    /\ UNCHANGED <<o_test, o_cvc5, o_solver, oracleOthers>>

\* lines 218-220: run_solver on cvc5
RunCvc5 ==
    /\ o_pc = "start" /\ o_test.exists /\ ~o_test.unsupported
    /\ o_cvc5' \in RunOutcomes
    /\ o_pc' = "cvc5_done"
    /\ UNCHANGED <<o_test, o_solver, o_exit, oracleOthers>>

\* lines 221-223: run_solver on the other solver
RunSolver ==
    /\ o_pc = "cvc5_done"
    /\ o_solver' \in RunOutcomes
    /\ o_pc' = "solver_done"
    /\ UNCHANGED <<o_test, o_cvc5, o_exit, oracleOthers>>

valid_results == {"sat", "unsat"}

\* lines 229-304: the exit code for the two results
Verdict(cvc5, solver) ==
    IF cvc5.result = "query" /\ solver.result = "query"
    THEN (IF cvc5.exit = 0 /\ solver.exit = 0 THEN 0 ELSE 1)
    ELSE IF cvc5.result \in valid_results /\ solver.result \in valid_results
    THEN (IF cvc5.result = solver.result THEN 0 ELSE 1)
    ELSE 1

Compare ==
    /\ o_pc = "solver_done"
    /\ OracleExit(Verdict(o_cvc5, o_solver))
    /\ UNCHANGED <<o_test, o_cvc5, o_solver, oracleOthers>>

OracleNext == TestMissing \/ TestUnsupported \/ RunCvc5 \/ RunSolver \/ Compare

SpecOracle == OracleInit /\ [][OracleNext]_vars

\* both solvers ran and gave the same answer, sat or unsat
Agree ==
    /\ o_cvc5.result \in {"sat", "unsat"}
    /\ o_solver.result \in {"sat", "unsat"}
    /\ o_cvc5.result = o_solver.result

\* C23: oracle.py exits with code 0 if and only if the two solvers agree, both
\* results being sat or both unsat; for every other combination of results, and
\* for a missing test file or unsupported commands, it exits with code 1.
C23_OracleVerdict ==
    o_pc = "exited" =>
        /\ o_exit \in {0, 1}
        /\ o_exit = 0 <=> Agree

(***************************************************************************)
(* SpecQualify: is_cvc5_function on a signature, the qualified name        *)
(* followed by the parameter list (or by nothing).                         *)
(***************************************************************************)
QualifiedNames ==
    {<<"f">>,
     <<"c","v","c","5",":",":","f">>,
     <<"c","v","c","5",":",":","t","h","e","o","r","y",":",":","S","o","l","v","e","r",":",":","f">>,
     <<"s","t","d",":",":","f">>,
     <<"s","t","d",":",":","c","v","c","5",":",":","f">>,
     <<"_","_","c","v","c","5",":",":","f">>,
     <<"_","_","g","n","u","_","c","x","x",":",":","f">>,
     <<"_","_","g","n","u","_","c","x","x",":",":","c","v","c","5",":",":","f">>,
     <<"n","s",":",":","f">>,
     <<"n","s",":",":","c","v","c","5",":",":","f">>,
     <<":",":","f">>,
     <<":",":","c","v","c","5",":",":","f">>,
     <<"a",":",":","s","t","d",":",":","f">>,
     <<"s","t","d","x",":",":","f">>,
     <<"_","x",":",":","f">>,
     <<>>,
     <<"c","v","c","5">>,
     <<"c","v","c","5",":","f">>,
     <<"x","_","_",":",":","f">>,
     <<"s","t","d">>,
     <<"_","_","f">>,
     <<"m","a","i","n",":",":","s","t","d",":",":","c","v","c","5",":",":","f">>,
     <<"o","p","e","r","a","t","o","r">>}

ParameterTexts ==
    {<<"(",")">>,
     <<"(","i","n","t",")">>,
     <<"(","s","t","d",":",":","s","t","r","i","n","g",")">>,
     <<"(","c","v","c","5",":",":","N","o","d","e",")">>,
     <<"(","s","t","d",":",":","v","e","c","t","o","r","<","c","v","c","5",":",":","N","o","d","e",">",","," ","_","_","m","1","2","8",")"," ","c","o","n","s","t">>,
     <<"(","v","o","i","d"," ","(","*",")","(","i","n","t",")",")">>,
     <<>>}

QualifyInit ==
    /\ NormIdle /\ DiffIdle /\ CommitIdle /\ MatchIdle /\ PairIdle /\ SessIdle /\ CliIdle /\ OracleIdle /\ FuzzIdle
    /\ q_pc = "start"
    /\ q_head \in QualifiedNames
    /\ q_params \in ParameterTexts
    /\ q_answer = FALSE

\* the call is_cvc5_function(signature)
Qualify ==
    /\ q_pc = "start"
    /\ q_answer' = is_cvc5_function(q_head \o q_params)
    /\ q_pc' = "done"
    /\ UNCHANGED <<q_head, q_params, qualOthers>>

QualifyNext == Qualify

SpecQualify == QualifyInit /\ [][QualifyNext]_vars

\* the name begins with the standard-library or a reserved namespace
ExcludedStart(name) == StartsWith(name, sStdNs) \/ StartsWith(name, sUnder2)

\* the text before the first "::" of a name that has one
LeadingNamespace(name) == SubSeq(name, 1, FindFrom(name, sColons, 1) - 1)

\* C26: is_cvc5_function decides on the qualified name before '(' only: a name
\* beginning with std:: or __ is rejected even if it contains cvc5::; otherwise
\* a name containing cvc5:: anywhere is accepted; otherwise a name whose leading
\* namespace is non-empty and not excluded is accepted; a name with no
\* namespace is rejected; the parameter types never affect the decision.
C26_QualifyPrecedence ==
    q_pc = "done" =>
        /\ ExcludedStart(q_head) => ~q_answer
        /\ (~ExcludedStart(q_head) /\ Contains(q_head, sCvc5Ns)) => q_answer
        /\ (~ExcludedStart(q_head) /\ ~Contains(q_head, sCvc5Ns) /\ Contains(q_head, sColons)) =>
              (q_answer <=> Len(LeadingNamespace(q_head)) > 0)
        /\ ~Contains(q_head, sColons) => ~q_answer
        /\ \A params \in ParameterTexts : is_cvc5_function(q_head \o params) = q_answer

\* a name in std that contains cvc5:: was rejected although its parameter is a
\* cvc5 type
C26_Witness ==
    /\ q_pc = "done" /\ ~q_answer
    /\ q_head = <<"s","t","d",":",":","c","v","c","5",":",":","f">>
    /\ q_params = <<"(","c","v","c","5",":",":","N","o","d","e",")">>

(***************************************************************************)
(* SpecFuzz: SimpleCommitFuzzer.run with its worker processes, the         *)
(* resource monitor, the clock and the shutdown signal.  A worker step is  *)
(* one access to the shared queue, event or dicts; "stats[k] += 1" on a    *)
(* manager dict is a read of the entry followed by a write of it.          *)
(***************************************************************************)
MaxWorkers == 2
MaxTests == 2
MaxRequeues == 1

EXIT_CODE_BUGS_FOUND == 10
EXIT_CODE_UNSUPPORTED == 3
EXIT_CODE_SUCCESS == 0

WorkerIds == 1..MaxWorkers
TestNames == 1..MaxTests
NoTest == 0

\* what _run_typefuzz returns: the exit code of typefuzz, 124 after a timeout
\* and 1 after another failure, and whether bug files were collected
RunResults ==
    {[exit |-> code, bugs |-> b] :
        code \in {EXIT_CODE_SUCCESS, EXIT_CODE_UNSUPPORTED, EXIT_CODE_BUGS_FOUND, 1, 124},
        b \in BOOLEAN}

\* the value returned by _handle_exit_code
ActionFor(result) ==
    IF result.exit = EXIT_CODE_BUGS_FOUND THEN "requeue"
    ELSE IF result.exit = EXIT_CODE_UNSUPPORTED THEN "remove"
    ELSE IF result.exit = EXIT_CODE_SUCCESS THEN (IF ~result.bugs THEN "remove" ELSE "requeue")
    ELSE "continue"

\* the counter that _handle_exit_code increments, if any
CounterFor(result) ==
    IF result.exit = EXIT_CODE_UNSUPPORTED THEN "tests_removed_unsupported"
    ELSE IF result.exit = EXIT_CODE_SUCCESS /\ ~result.bugs THEN "tests_removed_timeout"
    ELSE "none"

NoResult == [exit |-> NoneInt, bugs |-> FALSE]

\* a worker at the top of its loop, holding no test
WorkerAt(pc) == [pc |-> pc, test |-> NoTest, result |-> NoResult, key |-> "none", tmp |-> 0]

\* _is_time_expired
IsTimeExpired == time_limited /\ time_expired

Alive(w) == workers[w].pc \notin {"stopped", "killed"}

FuzzInit ==
    /\ NormIdle /\ DiffIdle /\ CommitIdle /\ MatchIdle /\ PairIdle /\ SessIdle /\ CliIdle /\ OracleIdle /\ QualIdle
    /\ r_pc = "waiting"
    /\ time_limited \in BOOLEAN
    /\ time_expired = FALSE /\ shutdown_event = FALSE
    /\ resource_state = ResourcesNormal
    /\ test_queue = [i \in TestNames |-> i]
    /\ workers = [w \in WorkerIds |-> WorkerAt("loop")]
    /\ stats = NoStats /\ f_done = NoStats /\ f_removed = {}

Step(w, next) == workers' = [workers EXCEPT ![w] = next]

\* line 511, lines 514-518: the loop test, then the pause
LoopTest(w) ==
    /\ workers[w].pc = "loop"
    /\ IF shutdown_event THEN Step(w, WorkerAt("stopped"))
       ELSE IF resource_state.paused THEN UNCHANGED workers
       ELSE Step(w, WorkerAt("get"))
    /\ UNCHANGED <<r_pc, time_limited, time_expired, shutdown_event, resource_state,
                   test_queue, stats, f_done, f_removed, fuzzOthers>>

\* lines 521-522: test_queue.get returns the oldest test
GetTest(w) ==
    /\ workers[w].pc = "get" /\ Len(test_queue) > 0
    /\ Step(w, [WorkerAt("check_time") EXCEPT !.test = Head(test_queue)])
    /\ test_queue' = Tail(test_queue)
    /\ UNCHANGED <<r_pc, time_limited, time_expired, shutdown_event, resource_state,
                   stats, f_done, f_removed, fuzzOthers>>

\* lines 523-527: test_queue.get times out on the empty queue
GetTimesOut(w) ==
    /\ workers[w].pc = "get" /\ Len(test_queue) = 0
    /\ Step(w, WorkerAt(IF shutdown_event \/ IsTimeExpired THEN "stopped" ELSE "loop"))
    /\ UNCHANGED <<r_pc, time_limited, time_expired, shutdown_event, resource_state,
                   test_queue, stats, f_done, f_removed, fuzzOthers>>

\* lines 530-535: out of time before the test starts
CheckTime(w) ==
    /\ workers[w].pc = "check_time"
    /\ IF IsTimeExpired
       THEN /\ test_queue' = Append(test_queue, workers[w].test)
            /\ Step(w, WorkerAt("stopped"))
       ELSE /\ Step(w, [workers[w] EXCEPT !.pc = "check_resources"])
            /\ UNCHANGED test_queue
    /\ UNCHANGED <<r_pc, time_limited, time_expired, shutdown_event, resource_state,
                   stats, f_done, f_removed, fuzzOthers>>

\* lines 538-548: the resource state before the test starts
CheckResources(w) ==
    /\ workers[w].pc = "check_resources"
    /\ IF resource_state.status = "critical"
       THEN /\ test_queue' = Append(test_queue, workers[w].test)
            /\ Step(w, WorkerAt("loop"))
       ELSE /\ Step(w, [workers[w] EXCEPT !.pc = "run"])
            /\ UNCHANGED test_queue
    /\ UNCHANGED <<r_pc, time_limited, time_expired, shutdown_event, resource_state,
                   stats, f_done, f_removed, fuzzOthers>>

\* lines 551-556: _run_typefuzz returns; bugs are found at most MaxRequeues times
RunTypefuzz(w) ==
    /\ workers[w].pc = "run"
    /\ \E result \in RunResults :
          /\ result.bugs => result.exit \in {EXIT_CODE_SUCCESS, EXIT_CODE_BUGS_FOUND}
          /\ ActionFor(result) = "requeue" => f_done["tests_requeued"] < MaxRequeues
          /\ Step(w, [workers[w] EXCEPT !.pc = "handle", !.result = result])
    /\ UNCHANGED <<r_pc, time_limited, time_expired, shutdown_event, resource_state,
                   test_queue, stats, f_done, f_removed, fuzzOthers>>

\* lines 559-561 and 469-505: _handle_exit_code up to its counter, if it has
\* one; after remove and continue the worker has no further use of the test
HandleExitCode(w) ==
    /\ workers[w].pc = "handle"
    /\ Step(w, IF CounterFor(workers[w].result) # "none"
               THEN [WorkerAt("read") EXCEPT !.key = CounterFor(workers[w].result)]
               ELSE IF ActionFor(workers[w].result) = "requeue"
               THEN [workers[w] EXCEPT !.pc = "put"]
               ELSE [WorkerAt("read") EXCEPT !.key = "tests_processed"])
    /\ f_removed' = IF ActionFor(workers[w].result) = "remove"
                    THEN f_removed \cup {workers[w].test} ELSE f_removed
    /\ UNCHANGED <<r_pc, time_limited, time_expired, shutdown_event, resource_state,
                   test_queue, stats, f_done, fuzzOthers>>

\* lines 563-565: test_queue.put(test_name)
Requeue(w) ==
    /\ workers[w].pc = "put"
    /\ test_queue' = Append(test_queue, workers[w].test)
    /\ Step(w, [WorkerAt("read") EXCEPT !.key = "tests_requeued"])
    /\ UNCHANGED <<r_pc, time_limited, time_expired, shutdown_event, resource_state,
                   stats, f_done, f_removed, fuzzOthers>>

\* stats[key] += 1, first half: the proxy fetches the entry
ReadCounter(w) ==
    /\ workers[w].pc = "read"
    /\ Step(w, [workers[w] EXCEPT !.pc = "write", !.tmp = stats[workers[w].key]])
    /\ UNCHANGED <<r_pc, time_limited, time_expired, shutdown_event, resource_state,
                   test_queue, stats, f_done, f_removed, fuzzOthers>>

\* stats[key] += 1, second half: the proxy stores the sum; tests_processed
\* (line 570) is the last counter of an iteration
WriteCounter(w) ==
    /\ workers[w].pc = "write"
    /\ stats' = [stats EXCEPT ![workers[w].key] = workers[w].tmp + 1]
    /\ f_done' = [f_done EXCEPT ![workers[w].key] = @ + 1]
    /\ Step(w, IF workers[w].key = "tests_processed" THEN WorkerAt("loop")
               ELSE [WorkerAt("read") EXCEPT !.key = "tests_processed"])
    /\ UNCHANGED <<r_pc, time_limited, time_expired, shutdown_event, resource_state,
                   test_queue, f_removed, fuzzOthers>>

WorkerStep(w) ==
    \/ LoopTest(w) \/ GetTest(w) \/ GetTimesOut(w) \/ CheckTime(w) \/ CheckResources(w)
    \/ RunTypefuzz(w) \/ HandleExitCode(w) \/ Requeue(w) \/ ReadCounter(w) \/ WriteCounter(w)

\* the status of a measurement; "warning" only delays a worker (lines
\* 539-540) and stands with "normal"
Statuses == {"normal", "critical"}

\* lines 197-215: the monitor stores the status it measured
MonitorStatus ==
    /\ r_pc # "returned" /\ ~shutdown_event /\ ~resource_state.paused
    /\ \E status \in Statuses :
          /\ status # resource_state.status
          /\ resource_state' = [resource_state EXCEPT !.status = status]
    /\ UNCHANGED <<r_pc, time_limited, time_expired, shutdown_event, test_queue, workers,
                   stats, f_done, f_removed, fuzzOthers>>

\* lines 244-245: _handle_critical_resources sets paused
MonitorPause ==
    /\ r_pc # "returned" /\ resource_state = [status |-> "critical", paused |-> FALSE]
    /\ resource_state' = [resource_state EXCEPT !.paused = TRUE]
    /\ UNCHANGED <<r_pc, time_limited, time_expired, shutdown_event, test_queue, workers,
                   stats, f_done, f_removed, fuzzOthers>>

\* lines 279-283: after pause_duration it clears paused; the next round of
\* the monitor measures again
MonitorUnpause ==
    /\ r_pc # "returned" /\ resource_state.paused
    /\ \E status \in Statuses :
          resource_state' = [status |-> status, paused |-> FALSE]
    /\ UNCHANGED <<r_pc, time_limited, time_expired, shutdown_event, test_queue, workers,
                   stats, f_done, f_removed, fuzzOthers>>

\* the clock reaches start_time + time_remaining
TimeExpires ==
    /\ r_pc # "returned" /\ time_limited /\ ~time_expired
    /\ time_expired' = TRUE
    /\ UNCHANGED <<r_pc, time_limited, shutdown_event, resource_state, test_queue, workers,
                   stats, f_done, f_removed, fuzzOthers>>

\* lines 612-617: SIGTERM or SIGINT arrives, signal_handler sets the event
ShutdownSignal ==
    /\ r_pc \in {"waiting", "joining"} /\ ~shutdown_event
    /\ shutdown_event' = TRUE
    /\ UNCHANGED <<r_pc, time_limited, time_expired, resource_state, test_queue, workers,
                   stats, f_done, f_removed, fuzzOthers>>

\* lines 621-628: with a time limit, run waits for the end time or for the
\* death of all workers, and sets the event when the time is over
WaitWithLimit ==
    /\ r_pc = "waiting" /\ time_limited
    /\ time_expired \/ \A w \in WorkerIds : ~Alive(w)
    /\ shutdown_event' = (shutdown_event \/ time_expired)
    /\ r_pc' = "joining"
    /\ UNCHANGED <<time_limited, time_expired, resource_state, test_queue, workers,
                   stats, f_done, f_removed, fuzzOthers>>

\* lines 629-632: without a time limit, run joins every worker
WaitForever ==
    /\ r_pc = "waiting" /\ ~time_limited
    /\ \A w \in WorkerIds : ~Alive(w)
    /\ r_pc' = "joining"
    /\ UNCHANGED <<time_limited, time_expired, shutdown_event, resource_state, test_queue,
                   workers, stats, f_done, f_removed, fuzzOthers>>

\* lines 638-645: join(timeout=5), then terminate and kill, for every worker;
\* lines 647-683: the summary is printed and run returns
JoinAndReturn ==
    /\ r_pc = "joining"
    /\ workers' = [w \in WorkerIds |->
                     IF Alive(w) THEN [workers[w] EXCEPT !.pc = "killed"] ELSE workers[w]]
    /\ r_pc' = "returned"
    /\ UNCHANGED <<time_limited, time_expired, shutdown_event, resource_state, test_queue,
                   stats, f_done, f_removed, fuzzOthers>>

RunStep == WaitWithLimit \/ WaitForever \/ JoinAndReturn

FuzzNext ==
    \/ \E w \in WorkerIds : WorkerStep(w)
    \/ RunStep
    \/ MonitorStatus \/ MonitorPause \/ MonitorUnpause
    \/ TimeExpires \/ ShutdownSignal

SpecFuzz == FuzzInit /\ [][FuzzNext]_vars

\* the test is in the queue
Queued(t) == \E i \in 1..Len(test_queue) : test_queue[i] = t

\* the worker has taken the test and has not yet decided on it or put it back
Holds(w, t) == Alive(w) /\ workers[w].test = t

\* C28: while run() is under way, under any interleaving of the workers, a
\* test is dropped for good only by a remove decision (exit code 3, or exit
\* code 0 with no bug files): after every other outcome (bugs found, time
\* expired before the run started, critical resource state, any other exit
\* code) it is back in the queue; and no test is held by two workers at once
\* or is held while it is in the queue.
C28_TestConservation ==
    r_pc # "returned" =>
        /\ \A t \in TestNames : Queued(t) \/ (\E w \in WorkerIds : Holds(w, t)) \/ t \in f_removed
        /\ \A t \in TestNames : \A v, w \in WorkerIds : (Holds(v, t) /\ Holds(w, t)) => v = w
        /\ \A t \in TestNames : \A w \in WorkerIds : Holds(w, t) => ~Queued(t)

\* C30: when run() prints the summary, every shared counter is the number of
\* increments performed on it, under any interleaving of the workers:
\* tests_processed the number of handled typefuzz runs, tests_requeued the
\* number of requeue actions, tests_removed_unsupported and
\* tests_removed_timeout the number of the remove decisions of each kind; no
\* increment of one worker is lost to a concurrent increment of another.
C30_StatisticsExact ==
    r_pc = "returned" => \A key \in StatKeys : stats[key] = f_done[key]

(***************************************************************************)
(* SpecFuzzFair: SpecFuzz under fair scheduling.  Every worker process and *)
(* run() itself keep taking steps (a typefuzz run ends), and the clock of  *)
(* a fuzzer with a time limit reaches the end time.  Nothing is assumed of *)
(* the shutdown signal or of the resource measurements.                    *)
(***************************************************************************)
SpecFuzzFair ==
    /\ FuzzInit /\ [][FuzzNext]_vars
    /\ \A w \in WorkerIds : WF_vars(WorkerStep(w))
    /\ WF_vars(RunStep)
    /\ WF_vars(TimeExpires)

\* the queue holds no more tests and no worker is running one
Drained == Len(test_queue) = 0 /\ \A w \in WorkerIds : workers[w].test = NoTest

\* every worker has left its loop (or was terminated) and run() has returned
RunReturned == r_pc = "returned" /\ \A w \in WorkerIds : ~Alive(w)

\* C29: under fair scheduling, once the queue holds no more tests and no
\* worker is running one, or the time budget has expired, or a shutdown
\* signal has been received, every worker leaves its loop and run() returns,
\* with a time limit and without one.
C29_RunTerminates ==
    /\ Drained ~> RunReturned
    /\ IsTimeExpired ~> RunReturned
    /\ shutdown_event ~> RunReturned

====
